---------------------------- MODULE Spec2Model ----------------------------
(***************************************************************************)
(* Model of the timetable allocator and the subject auto-enrollment of     *)
(* smartSPMS (src/app.py).                                                 *)
(*                                                                         *)
(* Conventions                                                             *)
(*   - A "HH:MM" time string is the pair <<hour, minute>> of its two       *)
(*     fields; time_to_minutes parses it back to minutes.                  *)
(*   - A grade-level string is a sequence of one-character strings.        *)
(*   - Python None is the value None where an id or a number is expected   *)
(*     and the empty string (or empty sequence) where a string is: the     *)
(*     code tests both only by truthiness.  Ids handed out by the database *)
(*     start at 1.                                                         *)
(*   - A JSON request value is a pair <<kind, n>>: <<"none", 0>> when the  *)
(*     key is absent, <<"int", n>> for the number n and <<"str", n>> for   *)
(*     the string that spells n.  The database coerces a bound string to   *)
(*     the integer column it is compared with (SqlEq); Python == does not  *)
(*     (PyEq).                                                             *)
(***************************************************************************)
EXTENDS Integers, Sequences, FiniteSets, TLC

VARIABLES
    subjects,          \* table subjects: set of Subject rows
    rooms,             \* table rooms: set of Room rows
    schedules,         \* table schedules: sequence of ScheduleEntry rows, insertion order
    resp,              \* the response of the last request (with the run's journal)
    call,              \* a call of a pure helper: its argument and its result
    students,          \* table students: set of Student rows
    student_subjects,  \* table student_subjects: sequence of StudentSubject rows
    assign_calls,      \* the calls of auto_assign_subjects_for_student so far
    users,             \* table users: the usernames
    nreq,              \* the number of requests served so far
    runs               \* the allocator requests in flight, when requests overlap

vars == <<subjects, rooms, schedules, resp, call, students, student_subjects,
          assign_calls, users, nreq, runs>>

None == -1

\* Python truthiness of an optional id: None and 0 are falsy.
Truthy(x) == x # None /\ x # 0

-----------------------------------------------------------------------------
(* Bounds of the model *)

MaxHours == 50      \* loads handed to split_hours_into_blocks: -2..MaxHours
MaxRequests == 3    \* requests served in one behaviour of the allocator

-----------------------------------------------------------------------------
(* Sequence helpers *)

RECURSIVE SumSeq(_)
SumSeq(s) == IF s = <<>> THEN 0 ELSE Head(s) + SumSeq(Tail(s))

SeqToSet(s) == {s[i] : i \in 1..Len(s)}

-----------------------------------------------------------------------------
(* Times and slots *)

\* f"{h:02d}:00"
HourStr(h) == <<h, 0>>

time_to_minutes(tstr) == tstr[1] * 60 + tstr[2]

\* list(range(a, b))
PyRange(a, b) == [i \in 1..(IF b > a THEN b - a ELSE 0) |-> a + i - 1]

\* Hour ranges with an afternoon that runs to 18:00.
hour_ranges_to_eighteen == <<<<7, 12>>, <<13, 18>>>>

hour_ranges == <<<<7, 12>>, <<13, 17>>>>

RECURSIVE SlotsOfRanges(_, _)
SlotsOfRanges(day, ranges) ==
    IF ranges = <<>> THEN <<>>
    ELSE LET hs == PyRange(Head(ranges)[1], Head(ranges)[2])
         IN  [i \in 1..Len(hs) |-> <<day, HourStr(hs[i]), HourStr(hs[i] + 1)>>]
             \o SlotsOfRanges(day, Tail(ranges))

RECURSIVE SlotsOfDays(_)
SlotsOfDays(days) ==
    IF days = <<>> THEN <<>>
    ELSE SlotsOfRanges(Head(days), hour_ranges) \o SlotsOfDays(Tail(days))

\* A generator that emits Saturday whatever the flag.
generate_slots_with_saturday(include_saturday) ==
    SlotsOfDays(PyRange(0, 6))

generate_slots(include_saturday) ==
    SlotsOfDays(PyRange(0, 5 + (IF include_saturday THEN 1 ELSE 0)))

-----------------------------------------------------------------------------
(* Load-to-blocks splitter *)

\* A splitter that gives two hours their own single-hour blocks.
split_hours_two_singles(hours) ==
    IF hours >= 5 THEN <<3, hours - 3>>
    ELSE IF hours = 4 THEN <<2, 2>>
    ELSE IF hours = 3 THEN <<2, 1>>
    ELSE IF hours = 2 THEN <<1, 1>>
    ELSE <<1>>

\* A splitter that puts the three-hour block of a long load last.
split_hours_long_block_last(hours) ==
    IF hours >= 5 THEN <<hours - 3, 3>>
    ELSE IF hours = 4 THEN <<2, 2>>
    ELSE IF hours = 3 THEN <<2, 1>>
    ELSE IF hours = 2 THEN <<2>>
    ELSE <<1>>

split_hours_into_blocks(hours) ==
    IF hours >= 5 THEN <<3, hours - 3>>
    ELSE IF hours = 4 THEN <<2, 2>>
    ELSE IF hours = 3 THEN <<2, 1>>
    ELSE IF hours = 2 THEN <<2>>
    ELSE <<1>>

-----------------------------------------------------------------------------
(* Grade-level strings *)

Digits == <<"0", "1", "2", "3", "4", "5", "6", "7", "8", "9">>

IsDigit(c) == \E d \in 1..10 : Digits[d] = c

DigitVal(c) == (CHOOSE d \in 1..10 : Digits[d] = c) - 1

\* int() of the digit characters s[i..j]
RECURSIVE IntOf(_, _, _)
IntOf(s, i, j) == IF j < i THEN 0 ELSE IntOf(s, i, j - 1) * 10 + DigitVal(s[j])

\* re.search(r"(\d+)", s): the leftmost maximal run of digits, None without one
FirstNumber(s) ==
    IF \A i \in 1..Len(s) : ~IsDigit(s[i]) THEN None
    ELSE LET i == CHOOSE k \in 1..Len(s) :
                      IsDigit(s[k]) /\ \A l \in 1..(k - 1) : ~IsDigit(s[l])
             j == CHOOSE k \in i..Len(s) :
                      /\ \A l \in i..k : IsDigit(s[l])
                      /\ (k = Len(s) \/ ~IsDigit(s[k + 1]))
         IN  IntOf(s, i, j)

parse_grade_number(grade_str) ==
    IF grade_str = <<>> THEN None ELSE FirstNumber(grade_str)

parse_band_from_grade(grade_str) ==
    IF grade_str = <<>> THEN ""
    ELSE LET g == FirstNumber(grade_str)
         IN  IF g = None THEN ""
             ELSE IF 7 <= g /\ g <= 10 THEN "JHS"
             ELSE IF 11 <= g /\ g <= 12 THEN "SHS"
             ELSE ""

Grade7 == <<"G", "r", "a", "d", "e", " ", "7">>
Grade6 == <<"G", "r", "a", "d", "e", " ", "6">>
Grade11 == <<"G", "r", "a", "d", "e", " ", "1", "1">>

-----------------------------------------------------------------------------
(* Weekly hours *)

JHSNames4 == {"Filipino", "Araling Panlipunan", "Edukasyon sa Pagpapakatao", "MAPEH"}
JHSNames5 == {"English", "Mathematics", "Science", "TLE"}
SHSNames3 == {"Oral Communication", "Reading and Writing", "Komunikasyon at Pananaliksik",
              "General Mathematics", "Statistics and Probability", "Earth and Life Science",
              "Physical Education and Health",
              "Understanding Culture, Society, and Politics"}
SHSNames4 == {"Empowerment Technologies", "Entrepreneurship", "Practical Research 1",
              "Practical Research 2", "Inquiries, Investigations, and Immersion"}

\* A subject name is <<stem, grade>>: "English 7" is <<"English", 7>>, and a name
\* without a grade suffix has grade None.
InTable(name) ==
    \/ name[1] \in JHSNames4 \cup JHSNames5 /\ name[2] \in 7..10
    \/ name[1] \in SHSNames3 \cup SHSNames4 /\ name[2] = None

\* A table that gives the five-hour subjects six hours.
SUBJECT_WEEKLY_HOURS_with_six(name) ==
    IF name[1] \in JHSNames4 THEN 4
    ELSE IF name[1] \in JHSNames5 THEN 6
    ELSE IF name[1] \in SHSNames3 THEN 3
    ELSE 4

SUBJECT_WEEKLY_HOURS(name) ==
    IF name[1] \in JHSNames4 THEN 4
    ELSE IF name[1] \in JHSNames5 THEN 5
    ELSE IF name[1] \in SHSNames3 THEN 3
    ELSE 4

\* A lookup that gives every senior subject outside the table three hours.
subject_weekly_hours_senior_three(subj) ==
    IF InTable(subj.name) THEN SUBJECT_WEEKLY_HOURS(subj.name)
    ELSE IF subj.level_band = "JHS" THEN 4
    ELSE 3

subject_weekly_hours(subj) ==
    IF InTable(subj.name) THEN SUBJECT_WEEKLY_HOURS(subj.name)
    ELSE IF subj.level_band = "JHS" THEN 4
    ELSE IF subj.level_band = "SHS" THEN (IF subj.category = "Core" THEN 3 ELSE 4)
    ELSE 3

-----------------------------------------------------------------------------
(* Tables *)

Subject(id, name, category, band, gmin, gmax, teacher) ==
    [id |-> id, name |-> name, category |-> category, level_band |-> band,
     track |-> "", grade_min |-> gmin, grade_max |-> gmax, teacher_id |-> teacher]

\* seed_subjects_data, in insertion order, cut to the grade-7 rows of the junior
\* band it seeds first and to the first senior core row.
seed_subjects_data ==
    { Subject(1, <<"Filipino", 7>>, "Core", "JHS", 7, 7, None),
      Subject(2, <<"Araling Panlipunan", 7>>, "Core", "JHS", 7, 7, None),
      Subject(3, <<"Mathematics", 7>>, "Core", "JHS", 7, 7, None),
      Subject(4, <<"Science", 7>>, "Core", "JHS", 7, 7, None),
      Subject(5, <<"TLE", 7>>, "Core", "JHS", 7, 7, None),
      Subject(6, <<"Oral Communication", None>>, "Core", "SHS", 11, 12, None) }

\* The sections table: two grade-7 sections of the junior band and one section
\* whose grade level names no band.
Sections ==
    { [id |-> 1, level_band |-> "JHS", grade_level |-> Grade7, track |-> ""],
      [id |-> 2, level_band |-> "", grade_level |-> Grade7, track |-> ""],
      [id |-> 3, level_band |-> "", grade_level |-> Grade6, track |-> ""] }

\* The users with role Teacher, and the subjects update_subject is asked to edit.
Teachers == {1}

EditedSubjects == {1, 2}

RoomIds == {1, 2}

\* Collation of the room names the model knows: ORDER BY name ASC.
RoomNameOrder == <<"Lab 1", "Room A", "Room B", "Room C">>

\* The names POST /api/rooms is asked to create.
RoomNames == {"Lab 1", "Room A"}

NameRank(name) == CHOOSE i \in 1..Len(RoomNameOrder) : RoomNameOrder[i] = name

\* A rooms query in descending name order.
RECURSIVE RoomsByNameDescending(_)
RoomsByNameDescending(rs) ==
    IF rs = {} THEN <<>>
    ELSE LET first == CHOOSE r \in rs :
                          \A q \in rs : NameRank(r.name) >= NameRank(q.name)
         IN  <<first>> \o RoomsByNameDescending(rs \ {first})

\* session.query(Room).order_by(Room.name.asc()).all()
RECURSIVE RoomsByName(_)
RoomsByName(rs) ==
    IF rs = {} THEN <<>>
    ELSE LET first == CHOOSE r \in rs :
                          \A q \in rs : NameRank(r.name) <= NameRank(q.name)
         IN  <<first>> \o RoomsByName(rs \ {first})

\* .all() without ORDER BY: the rows in primary-key order
RECURSIVE RowsById(_)
RowsById(rows) ==
    IF rows = {} THEN <<>>
    ELSE LET first == CHOOSE r \in rows : \A q \in rows : r.id <= q.id
         IN  <<first>> \o RowsById(rows \ {first})

\* Comparison of an integer column with a bound request value: the database
\* coerces the string "n" to n.
SqlEq(col, v) == v[1] # "none" /\ v[2] = col

\* Python ==: an int never equals a str.
PyEq(col, v) == v[1] = "int" /\ v[2] = col

\* not section_id
Falsy(v) == v[1] = "none" \/ (v[1] = "int" /\ v[2] = 0)

subjects_for_section(subjs, section) ==
    LET band == IF section.level_band # "" THEN section.level_band
                ELSE parse_band_from_grade(section.grade_level)
        grade_num == parse_grade_number(section.grade_level)
    IN  IF band = "" THEN <<>>
        ELSE RowsById({s \in subjs :
                        /\ s.level_band = band
                        /\ (Truthy(grade_num) =>
                              /\ (s.grade_min = None \/ s.grade_min <= grade_num)
                              /\ (s.grade_max = None \/ s.grade_max >= grade_num))})

-----------------------------------------------------------------------------
(* Occupancy tracker: a dict day -> list of (start, end, key) *)

\* A conflict check that compares the start times only.
has_conflict_equal_start(entries, day, start, end, key) ==
    IF day \notin DOMAIN entries THEN FALSE
    ELSE \E i \in 1..Len(entries[day]) :
            LET s == entries[day][i][1]
                k == entries[day][i][3]
            IN  /\ ~(key # None /\ k # None /\ k # key)
                /\ time_to_minutes(start) = time_to_minutes(s)

\* A conflict check for which intervals that touch overlap.
has_conflict_touching(entries, day, start, end, key) ==
    IF day \notin DOMAIN entries THEN FALSE
    ELSE \E i \in 1..Len(entries[day]) :
            LET s == entries[day][i][1]
                e == entries[day][i][2]
                k == entries[day][i][3]
            IN  /\ ~(key # None /\ k # None /\ k # key)
                /\ ~(time_to_minutes(end) < time_to_minutes(s)
                     \/ time_to_minutes(start) > time_to_minutes(e))

has_conflict(entries, day, start, end, key) ==
    IF day \notin DOMAIN entries THEN FALSE
    ELSE LET start_m == time_to_minutes(start)
             end_m == time_to_minutes(end)
         IN  \E i \in 1..Len(entries[day]) :
                LET s == entries[day][i][1]
                    e == entries[day][i][2]
                    k == entries[day][i][3]
                IN  /\ ~(key # None /\ k # None /\ k # key)
                    /\ ~(end_m <= time_to_minutes(s) \/ start_m >= time_to_minutes(e))

\* An append that is lost.
record_block_dropped(entries, day, start, end, key) == entries

\* entries.setdefault(day, []).append((start, end, key))
record_block(entries, day, start, end, key) ==
    IF day \in DOMAIN entries
    THEN [entries EXCEPT ![day] = Append(@, <<start, end, key>>)]
    ELSE entries @@ (day :> << <<start, end, key>> >>)

\* One index as the preload loop builds it from the rows it records: for each
\* day, the (start, end, key) of the rows of that day, in row order; the key is
\* the row's value in the column named.
IndexOf(recorded, column) ==
    [d \in {recorded[i].day_of_week : i \in 1..Len(recorded)} |->
        LET on == SelectSeq(recorded, LAMBDA r : r.day_of_week = d)
        IN  [i \in 1..Len(on) |-> <<on[i].start_time, on[i].end_time, on[i][column]>>]]

\* A preload loop that leaves the room index empty.
PreloadWithoutRooms(existing, section_id) ==
    LET kept == SelectSeq(existing, LAMBDA r : ~PyEq(r.section_id, section_id))
    IN  [section_occ |-> IndexOf(kept, "section_id"),
         teacher_occ |-> IndexOf(SelectSeq(kept, LAMBDA r : Truthy(r.teacher_id)), "teacher_id"),
         room_occ |-> IndexOf(<<>>, "room_id")]

\* A preload loop that leaves the teacher index empty.
PreloadWithoutTeachers(existing, section_id) ==
    LET kept == SelectSeq(existing, LAMBDA r : ~PyEq(r.section_id, section_id))
    IN  [section_occ |-> IndexOf(kept, "section_id"),
         teacher_occ |-> IndexOf(<<>>, "teacher_id"),
         room_occ |-> IndexOf(SelectSeq(kept, LAMBDA r : Truthy(r.room_id)), "room_id")]

\* The preload loop over the existing rows: the three indexes, without the rows
\* the Python comparison r.section_id == section_id skips.
Preload(existing, section_id) ==
    LET kept == SelectSeq(existing, LAMBDA r : ~PyEq(r.section_id, section_id))
    IN  [section_occ |-> IndexOf(kept, "section_id"),
         teacher_occ |-> IndexOf(SelectSeq(kept, LAMBDA r : Truthy(r.teacher_id)), "teacher_id"),
         room_occ |-> IndexOf(SelectSeq(kept, LAMBDA r : Truthy(r.room_id)), "room_id")]

-----------------------------------------------------------------------------
(* Greedy allocator *)

\* slots_by_day: the (day, [(start, end), ...]) items in insertion order, which
\* is the order in which the days first appear in slots
slots_by_day(slots) ==
    LET firsts == {i \in 1..Len(slots) : \A j \in 1..(i - 1) : slots[j][1] # slots[i][1]}
        nth(k) == CHOOSE i \in firsts : Cardinality({j \in firsts : j < i}) = k - 1
    IN  [k \in 1..Cardinality(firsts) |->
            LET day == slots[nth(k)][1]
                on == SelectSeq(slots, LAMBDA sl : sl[1] = day)
            IN  <<day, [i \in 1..Len(on) |-> <<on[i][2], on[i][3]>>]>>]

\* A room search that tries the first room of the list only.
room_choice_first_only(room_occ, room_list, i, day, start, end) ==
    IF i > Len(room_list) THEN 0
    ELSE IF has_conflict(room_occ, day, start, end, room_list[i].id) THEN 0
    ELSE i

\* The first room of the list without a conflict: its index, 0 without one.
RECURSIVE room_choice(_, _, _, _, _, _)
room_choice(room_occ, room_list, i, day, start, end) ==
    IF i > Len(room_list) THEN 0
    ELSE IF has_conflict(room_occ, day, start, end, room_list[i].id)
         THEN room_choice(room_occ, room_list, i + 1, day, start, end)
         ELSE i

NotAssigned == [assigned |-> FALSE]

\* A loop body that asks the teacher index whether or not the subject has a
\* teacher.
RunPassesTeacherAlways(occ, ctx, teacher_id, blk, day, day_slots, idx) ==
    LET start == day_slots[idx + 1][1]
        end == day_slots[idx + blk][2]
    IN  /\ ~has_conflict(occ.section_occ, day, start, end, ctx.section.id)
        /\ ~has_conflict(occ.teacher_occ, day, start, end, teacher_id)
        /\ room_choice(occ.room_occ, ctx.rooms, 1, day, start, end) # 0

\* The body of the idx loop up to the room search: the run at idx passes the
\* section check, the teacher check and has a room.
RunPasses(occ, ctx, teacher_id, blk, day, day_slots, idx) ==
    LET start == day_slots[idx + 1][1]
        end == day_slots[idx + blk][2]
    IN  /\ ~has_conflict(occ.section_occ, day, start, end, ctx.section.id)
        /\ ~(Truthy(teacher_id) /\ has_conflict(occ.teacher_occ, day, start, end, teacher_id))
        /\ room_choice(occ.room_occ, ctx.rooms, 1, day, start, end) # 0

\* for idx in range(0, len(day_slots) - blk + 1), from idx on: the loop breaks
\* at the first idx that passes.
RECURSIVE ScanRunsFrom(_, _, _, _, _, _, _)
ScanRunsFrom(occ, ctx, teacher_id, blk, day, day_slots, idx) ==
    IF idx >= Len(day_slots) - blk + 1 THEN NotAssigned
    ELSE IF RunPasses(occ, ctx, teacher_id, blk, day, day_slots, idx)
    THEN [assigned |-> TRUE, day |-> day,
          start |-> day_slots[idx + 1][1], end |-> day_slots[idx + blk][2],
          room |-> ctx.rooms[room_choice(occ.room_occ, ctx.rooms, 1, day,
                                         day_slots[idx + 1][1], day_slots[idx + blk][2])]]
    ELSE ScanRunsFrom(occ, ctx, teacher_id, blk, day, day_slots, idx + 1)

\* An idx loop that gives up after idx 0.
ScanRunsFirstOnly(occ, ctx, teacher_id, blk, day, day_slots) ==
    IF RunPasses(occ, ctx, teacher_id, blk, day, day_slots, 0)
    THEN ScanRunsFrom(occ, ctx, teacher_id, blk, day, day_slots, 0)
    ELSE NotAssigned

\* An idx loop that starts at idx 1.
ScanRunsFromSecond(occ, ctx, teacher_id, blk, day, day_slots) ==
    ScanRunsFrom(occ, ctx, teacher_id, blk, day, day_slots, 1)

ScanRuns(occ, ctx, teacher_id, blk, day, day_slots) ==
    ScanRunsFrom(occ, ctx, teacher_id, blk, day, day_slots, 0)

\* for day, day_slots in slots_by_day.items(), from the k-th item on
RECURSIVE ScanDays(_, _, _, _, _)
ScanDays(occ, ctx, teacher_id, blk, k) ==
    IF k > Len(ctx.slots_by_day) THEN NotAssigned
    ELSE IF Len(ctx.slots_by_day[k][2]) < blk THEN ScanDays(occ, ctx, teacher_id, blk, k + 1)
    ELSE CHOOSE found \in
            { IF hit.assigned THEN hit ELSE ScanDays(occ, ctx, teacher_id, blk, k + 1)
                : hit \in {ScanRuns(occ, ctx, teacher_id, blk, ctx.slots_by_day[k][1],
                                    ctx.slots_by_day[k][2])} } : TRUE

\* One block of one subject: the run state after the block.  The run state holds
\* the three indexes, the rows added to the session and the two result lists.
\* blk in a created record and subject_id, after in a failure record are not
\* part of the response: they note the block length asked for, the subject and
\* the number of entries created when the block failed.
PlaceBlock(run, ctx, subj, blk) ==
    CHOOSE after \in
        { IF hit.assigned
          THEN [occ |->
                  [section_occ |-> record_block(run.occ.section_occ, hit.day, hit.start,
                                                hit.end, ctx.section.id),
                   teacher_occ |-> IF Truthy(subj.teacher_id)
                                   THEN record_block(run.occ.teacher_occ, hit.day, hit.start,
                                                     hit.end, subj.teacher_id)
                                   ELSE run.occ.teacher_occ,
                   room_occ |-> record_block(run.occ.room_occ, hit.day, hit.start, hit.end,
                                             hit.room.id)],
                added |-> Append(run.added,
                  [section_id |-> ctx.section.id, subject_id |-> subj.id,
                   teacher_id |-> subj.teacher_id, room_id |-> hit.room.id,
                   day_of_week |-> hit.day, start_time |-> hit.start,
                   end_time |-> hit.end]),
                created |-> Append(run.created,
                  [subject |-> subj.name, day |-> hit.day, start |-> hit.start,
                   end |-> hit.end, room |-> hit.room.name, blk |-> blk]),
                failures |-> run.failures]
          ELSE [run EXCEPT !.failures =
                  Append(@, [subject |-> subj.name, hours |-> blk, subject_id |-> subj.id,
                             after |-> Len(run.created)])]
            : hit \in {ScanDays(run.occ, ctx, subj.teacher_id, blk, 1)} } : TRUE

\* A loop over the blocks that ends after the first block.
PlaceBlocksFirstOnly(run, ctx, subj, blocks) ==
    IF blocks = <<>> THEN run
    ELSE PlaceBlock(run, ctx, subj, Head(blocks))

\* for blk in blocks
RECURSIVE PlaceBlocks(_, _, _, _)
PlaceBlocks(run, ctx, subj, blocks) ==
    IF blocks = <<>> THEN run
    ELSE CHOOSE done \in
            { PlaceBlocks(after, ctx, subj, Tail(blocks))
                : after \in {PlaceBlock(run, ctx, subj, Head(blocks))} } : TRUE

\* for subj in subjects
RECURSIVE PlaceSubjects(_, _, _)
PlaceSubjects(run, ctx, subjs) ==
    IF subjs = <<>> THEN run
    ELSE CHOOSE done \in
            { PlaceSubjects(after, ctx, Tail(subjs))
                : after \in {PlaceBlocks(run, ctx, Head(subjs),
                                split_hours_into_blocks(subject_weekly_hours(Head(subjs))))}
            } : TRUE

\* The run from the preload to the end of the loops: the indexes, the rows added
\* and the two lists.
Allocate(existing, section_id, section, room_list, allow_saturday, subjs) ==
    CHOOSE run \in
        { PlaceSubjects([occ |-> occ, added |-> <<>>, created |-> <<>>, failures |-> <<>>],
                        [section |-> section, rooms |-> room_list, slots_by_day |-> by_day],
                        subjs)
            : occ \in {Preload(existing, section_id)},
              by_day \in {slots_by_day(generate_slots(allow_saturday))} } : TRUE

-----------------------------------------------------------------------------
(* Persistence helpers *)

\* Seed default subjects if none exist.
ensure_subjects_catalog(subjs) == IF Cardinality(subjs) = 0 THEN seed_subjects_data ELSE subjs

\* The id the rooms table gives its next row.
NewRoomId(rs) == IF rs = {} THEN 1 ELSE (CHOOSE i \in {r.id : r \in rs} : \A r \in rs : r.id <= i) + 1

\* A default room added whatever the table holds.
ensure_default_room_always(rs) == rs \cup {[id |-> NewRoomId(rs), name |-> "Room A"]}

\* Adds and commits "Room A" when the table holds no room.
ensure_default_room(rs) == IF rs # {} THEN rs ELSE {[id |-> NewRoomId(rs), name |-> "Room A"]}

\* A delete that removes nothing.
DeleteSectionEntriesNothing(rows, section_id) == rows

\* A delete that compares as Python does.
DeleteSectionEntriesPyEq(rows, section_id) ==
    SelectSeq(rows, LAMBDA r : ~PyEq(r.section_id, section_id))

\* session.query(ScheduleEntry).filter(ScheduleEntry.section_id == section_id).delete()
DeleteSectionEntries(rows, section_id) ==
    SelectSeq(rows, LAMBDA r : ~SqlEq(r.section_id, section_id))

\* session.commit(): the rows of the transaction become the persisted rows.
Commit(persisted, transaction) == transaction

\* A rollback that keeps the rows of the transaction.
RollbackKeeps(persisted, transaction) == transaction

\* A rollback that undoes the adds of the transaction but not its deletes.
RollbackAddsOnly(persisted, transaction) ==
    SelectSeq(persisted, LAMBDA r : r \in SeqToSet(transaction))

\* session.rollback(), and session.close() on an open transaction
Rollback(persisted, transaction) == persisted

NoRun == [created |-> <<>>, failed |-> <<>>]

\* A response: the handler, the status and the error text, and for a 200 of the
\* allocator the request (section_id, allow_saturday), the two lists it returns
\* and the rows the run added; a 500 after a
\* rollback and a 400 for a section without subjects note the section_id too.  repeat and first are history: whether
\* the request before was a 200 of the allocator for the same section_id and
\* flag, and the lists that one returned.
Response(op, status, error) ==
    [op |-> op, status |-> status, error |-> error,
     section_id |-> <<"none", 0>>, allow_saturday |-> FALSE,
     created |-> <<>>, failed |-> <<>>, added |-> <<>>,
     repeat |-> FALSE, first |-> NoRun]

FaultPoints == {"none", "connect", "query", "commit"}

-----------------------------------------------------------------------------
(* POST /api/schedule/auto-generate *)

\* The handler from ensure_default_room on, for the section found: catalog and
\* rooms1 are the subjects and the rooms tables as the two ensure_ helpers leave
\* them, existing the rows the preload query returned.
Regenerate(existing, section_id, allow_saturday, fault, section, catalog, rooms1) ==
    LET answer(status, error) == Response("auto_generate", status, error)
        repeat == /\ resp.op = "auto_generate"
                  /\ resp.status = 200
                  /\ resp.section_id = section_id
                  /\ resp.allow_saturday = allow_saturday
    IN  CHOOSE out \in
        { IF fault = "query"
          THEN [subjects |-> catalog, rooms |-> rooms1,
                schedules |-> Rollback(schedules, transaction),
                resp |-> [answer(500, "Unexpected error") EXCEPT !.section_id = section_id]]
          ELSE IF subjs = <<>>
          THEN [subjects |-> catalog, rooms |-> rooms1,
                schedules |-> Rollback(schedules, transaction),
                resp |-> [answer(400, "No subjects available") EXCEPT
                            !.section_id = section_id]]
          ELSE IF fault = "commit"
          THEN [subjects |-> catalog, rooms |-> rooms1,
                schedules |->
                    Rollback(schedules,
                             transaction \o Allocate(existing, section_id, section,
                                                     RoomsByName(rooms1), allow_saturday,
                                                     subjs).added),
                resp |-> [answer(500, "Unexpected error") EXCEPT !.section_id = section_id]]
          ELSE CHOOSE ended \in
            {     [subjects |-> catalog, rooms |-> rooms1,
                    schedules |-> Commit(schedules, transaction \o run.added),
                    resp |-> [answer(200, "") EXCEPT
                                !.section_id = section_id,
                                !.allow_saturday = allow_saturday,
                                !.created = run.created,
                                !.failed = run.failures,
                                !.added = run.added,
                                !.repeat = repeat,
                                !.first = IF repeat
                                          THEN [created |-> resp.created,
                                                failed |-> resp.failed]
                                          ELSE NoRun]]
                : run \in {Allocate(existing, section_id, section, RoomsByName(rooms1),
                                    allow_saturday, subjs)} } : TRUE
            : subjs \in {subjects_for_section(catalog, section)},
              transaction \in {DeleteSectionEntries(schedules, section_id)} } : TRUE

\* The handler's outcome: the three tables and the response.  fault names the
\* statement that raises a persistence error, if any: get_session ("connect"),
\* the subjects query that follows the delete ("query") or the final commit.
\* With the connection down, ensure_subjects_catalog fails before get_session
\* does, and logs its exception.
auto_generate_schedule(section_id, allow_saturday, fault) ==
    LET answer(status, error) == Response("auto_generate", status, error)
    IN
    IF Falsy(section_id)
    THEN [subjects |-> subjects, rooms |-> rooms, schedules |-> schedules,
          resp |-> answer(400, "section_id is required")]
    ELSE IF fault = "connect"
    THEN [subjects |-> subjects, rooms |-> rooms, schedules |-> schedules,
          resp |-> answer(500, "Database connection failed")]
    ELSE IF \A sec \in Sections : ~SqlEq(sec.id, section_id)
    THEN [subjects |-> ensure_subjects_catalog(subjects), rooms |-> rooms,
          schedules |-> schedules, resp |-> answer(404, "Section not found")]
    ELSE CHOOSE out \in
            { Regenerate(schedules, section_id, allow_saturday, fault, section, catalog, rooms1)
                : section \in {sec \in Sections : SqlEq(sec.id, section_id)},
                  catalog \in {ensure_subjects_catalog(subjects)},
                  rooms1 \in {ensure_default_room(rooms)} } : TRUE

SectionIdValues ==
    {<<"none", 0>>, <<"str", 1>>} \cup {<<"int", n>> : n \in 1..(Cardinality(Sections) + 1)}

AutoGenerate ==
    \E section_id \in SectionIdValues, allow_saturday \in BOOLEAN, fault \in FaultPoints :
        /\ nreq < MaxRequests
        /\ \E out \in {auto_generate_schedule(section_id, allow_saturday, fault)} :
            /\ nreq' = nreq + 1
            /\ subjects' = out.subjects
            /\ rooms' = out.rooms
            /\ schedules' = out.schedules
            /\ resp' = out.resp
            /\ UNCHANGED <<call, students, student_subjects, assign_calls, users, runs>>

-----------------------------------------------------------------------------
(* POST /api/rooms, DELETE /api/rooms/<id>, PUT /api/subjects/<id> *)

CreateRoom ==
    \E name \in RoomNames :
        /\ nreq < MaxRequests
        /\ nreq' = nreq + 1
        /\ NewRoomId(rooms) \in RoomIds
        /\ IF \E r \in rooms : r.name = name
           THEN /\ resp' = Response("create_room", 409, "room name must be unique")
                /\ UNCHANGED rooms
           ELSE /\ rooms' = rooms \cup {[id |-> NewRoomId(rooms), name |-> name]}
                /\ resp' = Response("create_room", 201, "")
        /\ UNCHANGED <<subjects, schedules, call, students, student_subjects,
                     assign_calls, users, runs>>

DeleteRoom ==
    \E room_id \in RoomIds :
        /\ nreq < MaxRequests
        /\ nreq' = nreq + 1
        /\ IF \A r \in rooms : r.id # room_id
           THEN /\ resp' = Response("delete_room", 404, "Room not found")
                /\ UNCHANGED <<rooms, schedules>>
           ELSE /\ schedules' = SelectSeq(schedules, LAMBDA e : e.room_id # room_id)
                /\ rooms' = {r \in rooms : r.id # room_id}
                /\ resp' = Response("delete_room", 200, "")
        /\ UNCHANGED <<subjects, call, students, student_subjects,
                     assign_calls, users, runs>>

\* update_subject with a body that holds only teacher_id
UpdateSubjectTeacher ==
    \E subject_id \in EditedSubjects, tid \in Teachers \cup {None} :
        /\ nreq < MaxRequests
        /\ nreq' = nreq + 1
        /\ IF \A sb \in subjects : sb.id # subject_id
           THEN /\ resp' = Response("update_subject", 404, "Subject not found")
                /\ UNCHANGED subjects
           ELSE /\ subjects' = {IF sb.id = subject_id THEN [sb EXCEPT !.teacher_id = tid]
                                ELSE sb : sb \in subjects}
                /\ resp' = Response("update_subject", 200, "")
        /\ UNCHANGED <<rooms, schedules, call, students, student_subjects,
                     assign_calls, users, runs>>

-----------------------------------------------------------------------------
(* The allocator's specification *)

\* No allocator request is in flight.
Slots == {1, 2}

NoRuns == [p \in Slots |-> [pc |-> "idle"]]

NoCall == [fn |-> "none", hours |-> 0, blocks |-> <<>>, done |-> TRUE]

Init ==
    /\ subjects \in {{}, seed_subjects_data}
    /\ rooms = {}
    /\ schedules = <<>>
    /\ resp = Response("none", 0, "")
    /\ call = NoCall
    /\ students = {}
    /\ student_subjects = <<>>
    /\ assign_calls = <<>>
    /\ users = {}
    /\ nreq = 0
    /\ runs = NoRuns

Next == AutoGenerate \/ CreateRoom \/ DeleteRoom \/ UpdateSubjectTeacher

Spec == Init /\ [][Next]_vars

-----------------------------------------------------------------------------
(* The allocator on catalogs, rooms and entries of other sections that are    *)
(* drawn: one request per behaviour                                            *)

\* The grade-7 rows the catalogs are made of: two of five hours, one of four.
ScenarioNames == {<<"Mathematics", 7>>, <<"Science", 7>>, <<"Filipino", 7>>}

\* The subjects table after the admin created the rows named, in that order,
\* with the teachers given: the ids follow the order of creation.
Catalog(names, teachers) ==
    { Subject(i, names[i], "Core", "JHS", 7, 7, teachers[i]) : i \in 1..Len(names) }

\* Two distinct rows in either order, each with or without the teacher; and the
\* two five-hour rows with the teacher, after or before the four-hour row
\* without one.
ScenarioCatalogs ==
    { Catalog(<<pair[1], pair[2]>>, <<ta, tb>>) :
        pair \in {pr \in ScenarioNames \X ScenarioNames : pr[1] # pr[2]},
        ta \in Teachers \cup {None}, tb \in Teachers \cup {None} }
    \cup { Catalog(<<<<"Filipino", 7>>, <<"Mathematics", 7>>, <<"Science", 7>>>>,
                   <<None, 1, 1>>),
           Catalog(<<<<"Mathematics", 7>>, <<"Science", 7>>, <<"Filipino", 7>>>>,
                   <<1, 1, None>>) }

ScenarioRooms ==
    { {},
      {[id |-> 1, name |-> "Room A"]},
      {[id |-> 1, name |-> "Room A"], [id |-> 2, name |-> "Lab 1"]},
      {[id |-> 1, name |-> "Lab 1"], [id |-> 2, name |-> "Room A"]} }

\* The hours teacher 1 has left, as sets of <<day, idx>>: the slot at index idx
\* (from 0) of the day's slot list.
FreeSets ==
    { {<<0, 0>>, <<0, 1>>, <<0, 2>>, <<0, 3>>},
      {<<0, 0>>, <<0, 1>>, <<0, 2>>, <<1, 0>>},
      {<<0, 1>>, <<0, 2>>, <<0, 3>>, <<1, 0>>},
      {<<0, 3>>, <<0, 4>>, <<0, 5>>, <<1, 0>>},
      {<<0, 2>>, <<0, 3>>, <<0, 4>>, <<0, 5>>},
      {<<0, 0>>, <<0, 1>>, <<0, 3>>, <<0, 4>>},
      {<<0, 0>>, <<0, 2>>, <<0, 4>>, <<1, 0>>},
      {<<0, 0>>, <<0, 1>>, <<0, 4>>, <<0, 5>>} }

\* The rows of section 2 with teacher 1 in room 1 that keep the slots of a day
\* from index idx on, but the free ones: one row per stretch of up to three
\* consecutive kept slots of the morning or of the afternoon.
RECURSIVE KeptRows(_, _, _, _)
KeptRows(day, day_slots, free, idx) ==
    IF idx >= Len(day_slots) THEN <<>>
    ELSE IF <<day, idx>> \in free THEN KeptRows(day, day_slots, free, idx + 1)
    ELSE LET half == IF idx < hour_ranges[1][2] - hour_ranges[1][1]
                     THEN hour_ranges[1][2] - hour_ranges[1][1] ELSE Len(day_slots)
             fits(n) == /\ idx + n <= half
                        /\ \A j \in idx..(idx + n - 1) : <<day, j>> \notin free
             blk == CHOOSE n \in 1..3 : fits(n) /\ (n = 3 \/ ~fits(n + 1))
         IN  <<[section_id |-> 2, subject_id |-> 1, teacher_id |-> 1, room_id |-> 1,
                day_of_week |-> day, start_time |-> day_slots[idx + 1][1],
                end_time |-> day_slots[idx + blk][2]]>>
             \o KeptRows(day, day_slots, free, idx + blk)

\* The schedules table when section 2 holds teacher 1 in every slot of Monday
\* to Saturday but the free ones.
RECURSIVE TeacherBusy(_, _)
TeacherBusy(free, by_day) ==
    IF by_day = <<>> THEN <<>>
    ELSE KeptRows(Head(by_day)[1], Head(by_day)[2], free, 0) \o TeacherBusy(free, Tail(by_day))

ScenarioEntries ==
    {<<>>} \cup {TeacherBusy(free, slots_by_day(generate_slots(TRUE))) : free \in FreeSets}

InitScenario ==
    /\ subjects \in ScenarioCatalogs
    /\ rooms \in ScenarioRooms
    /\ schedules \in ScenarioEntries
    /\ rooms = {} => schedules = <<>>
    /\ resp = Response("none", 0, "")
    /\ call = NoCall
    /\ students = {}
    /\ student_subjects = <<>>
    /\ assign_calls = <<>>
    /\ users = {}
    /\ nreq = MaxRequests - 1
    /\ runs = NoRuns

SpecScenario == InitScenario /\ [][AutoGenerate]_vars

-----------------------------------------------------------------------------
(* Two allocator requests that may overlap.  A request takes three steps: up  *)
(* to the preload query, which reads the committed rows; from the delete to   *)
(* the end of the loops; and the commit.  Nothing in the handler orders the   *)
(* steps of two requests.                                                     *)

\* The catalogs of the overlapping requests: the seeded one, and the seeded one
\* with the teacher on its first two subjects.
ConcurrentCatalogs ==
    { seed_subjects_data,
      { IF sb.id \in EditedSubjects THEN [sb EXCEPT !.teacher_id = 1] ELSE sb
          : sb \in seed_subjects_data } }

\* The rooms table before the overlapping requests: empty, or two rooms.
ConcurrentRooms ==
    { {}, {[id |-> 1, name |-> "Room A"], [id |-> 2, name |-> "Lab 1"]} }

InitConcurrent ==
    /\ subjects \in ConcurrentCatalogs
    /\ rooms \in ConcurrentRooms
    /\ schedules = <<>>
    /\ resp = Response("none", 0, "")
    /\ call = NoCall
    /\ students = {}
    /\ student_subjects = <<>>
    /\ assign_calls = <<>>
    /\ users = {}
    /\ nreq = 0
    /\ runs = NoRuns

\* The handler up to the preload query (existing = ...all()): the request in
\* slot p is rejected, or holds the section, the rooms and the rows it read.
BeginRun ==
    \E p \in Slots, section_id \in SectionIdValues, allow_saturday \in BOOLEAN,
       fault \in {"none", "connect"} :
        LET answer(status, error) == Response("auto_generate", status, error)
        IN  /\ nreq < MaxRequests
            /\ nreq' = nreq + 1
            /\ runs[p].pc = "idle"
            /\ IF Falsy(section_id)
               THEN /\ resp' = answer(400, "section_id is required")
                    /\ UNCHANGED <<subjects, rooms, runs>>
               ELSE IF fault = "connect"
               THEN /\ resp' = answer(500, "Database connection failed")
                    /\ UNCHANGED <<subjects, rooms, runs>>
               ELSE IF \A sec \in Sections : ~SqlEq(sec.id, section_id)
               THEN /\ subjects' = ensure_subjects_catalog(subjects)
                    /\ resp' = answer(404, "Section not found")
                    /\ UNCHANGED <<rooms, runs>>
               ELSE /\ subjects' = ensure_subjects_catalog(subjects)
                    /\ rooms' = ensure_default_room(rooms)
                    /\ runs' = [runs EXCEPT ![p] =
                                  [pc |-> "loaded", section_id |-> section_id,
                                   allow_saturday |-> allow_saturday,
                                   section |-> CHOOSE sec \in Sections :
                                                  SqlEq(sec.id, section_id),
                                   rooms |-> rooms', existing |-> schedules,
                                   fault |-> "none", status |-> 0, added |-> <<>>,
                                   pending |-> resp, seen_done |-> {}, after |-> {}]]
                    /\ UNCHANGED resp
            /\ UNCHANGED <<schedules, call, students, student_subjects, assign_calls, users>>

\* The requests that have committed.
DoneRuns == {q \in Slots : runs[q].pc = "done" /\ runs[q].status = 200}

\* The handler from the delete to the end of the loops, for the request in slot
\* p: the delete and the adds are work of the request's transaction, which the
\* other request does not see; the indexes are those of the rows the request
\* read in its first step.  The request ends here when the section has no
\* subject or a statement raises; otherwise it holds its rows and its answer.
\* seen_done and after are history: the requests that had committed when the
\* request issued its delete, and when it committed.
PlaceRun ==
    \E p \in Slots, fault \in {"none", "query"} :
        /\ runs[p].pc = "loaded"
        /\ \E out \in {Regenerate(runs[p].existing, runs[p].section_id,
                                  runs[p].allow_saturday, fault, runs[p].section,
                                  subjects, runs[p].rooms)} :
              IF out.resp.status = 200
              THEN /\ runs' = [runs EXCEPT ![p].pc = "placed",
                                           ![p].added = out.resp.added,
                                           ![p].pending = out.resp,
                                           ![p].seen_done = DoneRuns]
                   /\ UNCHANGED <<schedules, resp>>
              ELSE /\ schedules' = out.schedules
                   /\ resp' = out.resp
                   /\ runs' = [runs EXCEPT ![p].pc = "done", ![p].fault = fault,
                                           ![p].status = out.resp.status]
        /\ UNCHANGED <<subjects, rooms, call, students, student_subjects, assign_calls,
                       users, nreq>>

\* session.commit() of the request in slot p, or the error it raises.  The
\* delete removed the rows of the section that were committed when it was
\* issued: the rows another request for the same section has committed since
\* stay.
CommitRun ==
    \E p \in Slots, fault \in {"none", "commit"} :
        /\ runs[p].pc = "placed"
        /\ IF fault = "commit"
           THEN /\ schedules' = Rollback(schedules, schedules \o runs[p].added)
                /\ resp' = [Response("auto_generate", 500, "Unexpected error") EXCEPT
                              !.section_id = runs[p].section_id]
                /\ runs' = [runs EXCEPT ![p].pc = "done", ![p].fault = fault,
                                        ![p].status = 500]
           ELSE /\ schedules' =
                     Commit(schedules,
                            (IF \E q \in DoneRuns \ runs[p].seen_done :
                                   q # p /\ runs[q].section.id = runs[p].section.id
                             THEN schedules
                             ELSE DeleteSectionEntries(schedules, runs[p].section_id))
                            \o runs[p].added)
                /\ resp' = runs[p].pending
                /\ runs' = [runs EXCEPT ![p].pc = "done", ![p].status = 200,
                                        ![p].after = DoneRuns]
        /\ UNCHANGED <<subjects, rooms, call, students, student_subjects, assign_calls,
                       users, nreq>>

NextConcurrent == BeginRun \/ PlaceRun \/ CommitRun

SpecConcurrent == InitConcurrent /\ [][NextConcurrent]_vars

-----------------------------------------------------------------------------
(* The allocator after a subject left the band of a section: allocator runs   *)
(* and changes of a subject's band, from a catalog of one or two subjects     *)

\* The subjects table after the admin created one or two grade-7 subjects.
SmallCatalogs ==
    { Catalog(<<<<"Mathematics", 7>>>>, <<None>>),
      Catalog(<<<<"Mathematics", 7>>, <<"Filipino", 7>>>>, <<1, None>>) }

\* The values of level_band in the body of update_subject.
BandValues == {"JHS", "SHS", "ELEM"}

InitReject ==
    /\ subjects \in SmallCatalogs
    /\ rooms \in {{}, {[id |-> 1, name |-> "Room A"]}}
    /\ schedules = <<>>
    /\ resp = Response("none", 0, "")
    /\ call = NoCall
    /\ students = {}
    /\ student_subjects = <<>>
    /\ assign_calls = <<>>
    /\ users = {}
    /\ nreq = 0
    /\ runs = NoRuns

\* update_subject with a body that holds only level_band
UpdateSubjectBand ==
    \E subject_id \in EditedSubjects, band \in BandValues :
        /\ nreq < MaxRequests
        /\ nreq' = nreq + 1
        /\ IF \A sb \in subjects : sb.id # subject_id
           THEN /\ resp' = Response("update_subject", 404, "Subject not found")
                /\ UNCHANGED subjects
           ELSE IF band \notin {"JHS", "SHS"}
           THEN /\ resp' = Response("update_subject", 400, "level_band must be JHS or SHS")
                /\ UNCHANGED subjects
           ELSE /\ subjects' = {IF sb.id = subject_id THEN [sb EXCEPT !.level_band = band]
                                ELSE sb : sb \in subjects}
                /\ resp' = Response("update_subject", 200, "")
        /\ UNCHANGED <<rooms, schedules, call, students, student_subjects,
                     assign_calls, users, runs>>

NextReject == AutoGenerate \/ UpdateSubjectBand

SpecReject == InitReject /\ [][NextReject]_vars

-----------------------------------------------------------------------------
(* Subject auto-enrollment *)

\* section=None
NoSection == [id |-> None, level_band |-> "", grade_level |-> <<>>, track |-> ""]

\* An exists query that sees the committed rows only.
EnrolledCommitted(persisted, transaction, student_id, subject_id) ==
    \E i \in 1..Len(persisted) :
        /\ persisted[i].student_id = student_id
        /\ persisted[i].subject_id = subject_id

\* An exists query that counts the active rows only.
EnrolledActiveOnly(persisted, transaction, student_id, subject_id) ==
    \E i \in 1..Len(transaction) :
        /\ transaction[i].student_id = student_id
        /\ transaction[i].subject_id = subject_id
        /\ transaction[i].active = 1

\* The exists query on student_subjects.  The session flushes before a query:
\* the query sees the rows the transaction has added.
Enrolled(persisted, transaction, student_id, subject_id) ==
    \E i \in 1..Len(transaction) :
        /\ transaction[i].student_id = student_id
        /\ transaction[i].subject_id = subject_id

\* A loop that skips a subject with a track unless the section has that track.
RECURSIVE EnrollEachTrackRequired(_, _, _, _, _, _)
EnrollEachTrackRequired(persisted, transaction, subjs, student, section, created) ==
    IF subjs = <<>> THEN [rows |-> transaction, created |-> created]
    ELSE LET subj == Head(subjs)
             track == IF section.id # None /\ section.track # "" THEN section.track ELSE ""
         IN  IF subj.track # "" /\ subj.track # track
             THEN EnrollEachTrackRequired(persisted, transaction, Tail(subjs), student,
                                          section, created)
             ELSE IF Enrolled(persisted, transaction, student.id, subj.id)
             THEN EnrollEachTrackRequired(persisted, transaction, Tail(subjs), student,
                                          section, created)
             ELSE EnrollEachTrackRequired(persisted,
                             Append(transaction,
                                    [student_id |-> student.id, subject_id |-> subj.id,
                                     teacher_id |-> subj.teacher_id,
                                     section_id |-> IF section.id # None THEN section.id
                                                    ELSE student.section_id,
                                     active |-> 1]),
                             Tail(subjs), student, section, created + 1)

\* A loop that stores the student's own section_id whatever section is passed.
RECURSIVE EnrollEachOwnSection(_, _, _, _, _, _)
EnrollEachOwnSection(persisted, transaction, subjs, student, section, created) ==
    IF subjs = <<>> THEN [rows |-> transaction, created |-> created]
    ELSE LET subj == Head(subjs)
             track == IF section.id # None /\ section.track # "" THEN section.track ELSE ""
         IN  IF subj.track # "" /\ track # "" /\ subj.track # track
             THEN EnrollEachOwnSection(persisted, transaction, Tail(subjs), student, section,
                                       created)
             ELSE IF Enrolled(persisted, transaction, student.id, subj.id)
             THEN EnrollEachOwnSection(persisted, transaction, Tail(subjs), student, section,
                                       created)
             ELSE EnrollEachOwnSection(persisted,
                             Append(transaction,
                                    [student_id |-> student.id, subject_id |-> subj.id,
                                     teacher_id |-> subj.teacher_id,
                                     section_id |-> student.section_id,
                                     active |-> 1]),
                             Tail(subjs), student, section, created + 1)

\* for subj in subjects: the rows of the transaction and the count after the loop
RECURSIVE EnrollEach(_, _, _, _, _, _)
EnrollEach(persisted, transaction, subjs, student, section, created) ==
    IF subjs = <<>> THEN [rows |-> transaction, created |-> created]
    ELSE LET subj == Head(subjs)
             track == IF section.id # None /\ section.track # "" THEN section.track ELSE ""
         IN  IF subj.track # "" /\ track # "" /\ subj.track # track
             THEN EnrollEach(persisted, transaction, Tail(subjs), student, section, created)
             ELSE IF Enrolled(persisted, transaction, student.id, subj.id)
             THEN EnrollEach(persisted, transaction, Tail(subjs), student, section, created)
             ELSE EnrollEach(persisted,
                             Append(transaction,
                                    [student_id |-> student.id, subject_id |-> subj.id,
                                     teacher_id |-> subj.teacher_id,
                                     section_id |-> IF section.id # None THEN section.id
                                                    ELSE student.section_id,
                                     active |-> 1]),
                             Tail(subjs), student, section, created + 1)

\* A subjects query without the grade_max filter.
auto_assign_without_grade_max(persisted, transaction, subjs, student, section) ==
    LET grade_num == parse_grade_number(student.grade_level)
        band == parse_band_from_grade(student.grade_level)
    IN  IF band = "" \/ ~Truthy(grade_num) THEN [rows |-> transaction, created |-> 0]
        ELSE EnrollEach(persisted, transaction,
                        RowsById({s \in subjs :
                                    /\ s.level_band = band
                                    /\ (s.grade_min = None \/ s.grade_min <= grade_num)}),
                        student, section, 0)

auto_assign_subjects_for_student(persisted, transaction, subjs, student, section) ==
    LET grade_num == parse_grade_number(student.grade_level)
        band == parse_band_from_grade(student.grade_level)
    IN  IF band = "" \/ ~Truthy(grade_num) THEN [rows |-> transaction, created |-> 0]
        ELSE EnrollEach(persisted, transaction,
                        RowsById({s \in subjs :
                                    /\ s.level_band = band
                                    /\ (s.grade_min = None \/ s.grade_min <= grade_num)
                                    /\ (s.grade_max = None \/ s.grade_max >= grade_num)}),
                        student, section, 0)

\* One call as assign_calls keeps it: the student, the section, the number of
\* rows the call created and the catalog it read.
CallRecord(student, section, created) ==
    [student_id |-> student.id, section_id |-> section.id, created |-> created,
     catalog |-> subjects]

StudentNumbers == {"", "S1", "S2"}

GradeLevels == {<<>>, Grade7, Grade11}

NewStudentId(sts) ==
    IF sts = {} THEN 1 ELSE (CHOOSE i \in {st.id : st \in sts} : \A st \in sts : st.id <= i) + 1

\* POST /api/students: the tables and the response after the handler
create_student(student_number, grade_level, section_id) ==
    LET unchanged(r) == [students |-> students, student_subjects |-> student_subjects,
                         assign_calls |-> assign_calls, resp |-> r]
        answer(status, error) == Response("create_student", status, error)
        found == {sec \in Sections : SqlEq(sec.id, section_id)}
    IN
    IF student_number = "" THEN unchanged(answer(400, "Missing fields"))
    ELSE IF \E st \in students : st.student_number = student_number
    THEN unchanged(answer(409, "student_number must be unique"))
    ELSE IF ~Falsy(section_id) /\ found = {}
    THEN unchanged(answer(400, "section_id not found"))
    ELSE
    LET section_obj == IF Falsy(section_id) THEN NoSection ELSE CHOOSE sec \in found : TRUE
        student == [id |-> NewStudentId(students), student_number |-> student_number,
                    grade_level |-> grade_level, section_id |-> section_obj.id]
        out == auto_assign_subjects_for_student(student_subjects, student_subjects,
                                                subjects, student, section_obj)
    IN  [students |-> students \cup {student},
         student_subjects |-> Commit(student_subjects, out.rows),
         assign_calls |-> Append(assign_calls, CallRecord(student, section_obj, out.created)),
         resp |-> answer(201, "")]

CreateSectionIds == {<<"none", 0>>, <<"int", 1>>, <<"int", 4>>}

CreateStudent ==
    \E student_number \in StudentNumbers, grade_level \in GradeLevels,
       section_id \in CreateSectionIds :
        LET out == create_student(student_number, grade_level, section_id)
        IN  /\ nreq < MaxRequests
            /\ nreq' = nreq + 1
            /\ students' = out.students
            /\ student_subjects' = out.student_subjects
            /\ assign_calls' = out.assign_calls
            /\ resp' = out.resp
            /\ UNCHANGED <<subjects, rooms, schedules, call, users, runs>>

\* The validation loop over ids: what it finds for one id.
CheckId(sid, sec_grade_num) ==
    IF \A st \in students : st.id # sid THEN "missing"
    ELSE LET st == CHOOSE row \in students : row.id = sid
             stu_grade_num == parse_grade_number(st.grade_level)
         IN  IF Truthy(sec_grade_num) /\ Truthy(stu_grade_num) /\ stu_grade_num # sec_grade_num
             THEN "grade"
             ELSE "ok"

\* for sid in valid_ids: auto_assign_subjects_for_student(session, stu, section)
RECURSIVE AssignEach(_, _, _, _)
AssignEach(transaction, log, ids, section) ==
    IF ids = <<>> THEN [rows |-> transaction, log |-> log]
    ELSE LET stu == CHOOSE row \in students : row.id = Head(ids)
             out == auto_assign_subjects_for_student(student_subjects, transaction,
                                                     subjects, stu, section)
         IN  AssignEach(out.rows, Append(log, CallRecord(stu, section, out.created)),
                        Tail(ids), section)

\* POST /api/sections/<section_id>/students
assign_students_to_section(section_id, ids) ==
    LET unchanged(r) == [students |-> students, student_subjects |-> student_subjects,
                         assign_calls |-> assign_calls, resp |-> r]
        answer(status, error) == Response("assign_students", status, error)
        found == {sec \in Sections : sec.id = section_id}
    IN
    IF ids = <<>> THEN unchanged(answer(400, "student_ids list is required"))
    ELSE IF found = {} THEN unchanged(answer(404, "Section not found"))
    ELSE
    LET section == CHOOSE sec \in found : TRUE
        sec_grade_num == parse_grade_number(section.grade_level)
        bad == {i \in 1..Len(ids) : CheckId(ids[i], sec_grade_num) # "ok"}
        first == CHOOSE i \in bad : \A j \in bad : i <= j
    IN
    IF bad # {}
    THEN IF CheckId(ids[first], sec_grade_num) = "missing"
         THEN unchanged(answer(404, "Student not found"))
         ELSE unchanged(answer(400, "Student grade does not match section grade"))
    ELSE
    LET valid_ids == ids
        out == AssignEach(student_subjects, assign_calls, valid_ids, section)
    IN  [students |-> {IF st.id \in SeqToSet(valid_ids)
                       THEN [st EXCEPT !.section_id = section_id] ELSE st : st \in students},
         student_subjects |-> Commit(student_subjects, out.rows),
         assign_calls |-> out.log,
         resp |-> answer(200, "")]

AssignSectionIds == {1, 2, 4}

StudentIdLists == {<<>>, <<1>>, <<2>>, <<1, 1>>, <<1, 2>>, <<3>>}

AssignStudentsToSection ==
    \E section_id \in AssignSectionIds, ids \in StudentIdLists :
        LET out == assign_students_to_section(section_id, ids)
        IN  /\ nreq < MaxRequests
            /\ nreq' = nreq + 1
            /\ students' = out.students
            /\ student_subjects' = out.student_subjects
            /\ assign_calls' = out.assign_calls
            /\ resp' = out.resp
            /\ UNCHANGED <<subjects, rooms, schedules, call, users, runs>>

AdminUsername == "gabpena891@gmail.com"

\* /api/admin/seed-admin: authorized is the outcome of the token check
AdminSeed ==
    \E authorized \in BOOLEAN :
        /\ nreq < MaxRequests
        /\ nreq' = nreq + 1
        /\ IF ~authorized
           THEN /\ resp' = Response("admin_seed", 403, "Forbidden")
                /\ UNCHANGED <<users, subjects>>
           ELSE IF AdminUsername \in users
           THEN /\ resp' = Response("admin_seed", 200, "")
                /\ UNCHANGED <<users, subjects>>
           ELSE /\ users' = users \cup {AdminUsername}
                /\ subjects' = ensure_subjects_catalog(subjects)
                /\ resp' = Response("admin_seed", 200, "")
        /\ UNCHANGED <<rooms, schedules, call, students, student_subjects, assign_calls,
                     runs>>

NextEnroll == CreateStudent \/ AssignStudentsToSection \/ AdminSeed \/ UpdateSubjectTeacher

SpecEnroll == Init /\ [][NextEnroll]_vars

-----------------------------------------------------------------------------
(* split_hours_into_blocks on its own: one call per behaviour *)

InitSplit ==
    /\ call \in {[fn |-> "split_hours_into_blocks", hours |-> h, blocks |-> <<>>,
                  done |-> FALSE] : h \in (0 - 2)..MaxHours}
    /\ subjects = {}
    /\ rooms = {}
    /\ schedules = <<>>
    /\ resp = Response("none", 0, "")
    /\ students = {}
    /\ student_subjects = <<>>
    /\ assign_calls = <<>>
    /\ users = {}
    /\ nreq = 0
    /\ runs = NoRuns

Split ==
    /\ ~call.done
    /\ call' = [call EXCEPT !.blocks = split_hours_into_blocks(call.hours), !.done = TRUE]
    /\ UNCHANGED <<subjects, rooms, schedules, resp, students, student_subjects,
                   assign_calls, users, nreq, runs>>

SpecSplit == InitSplit /\ [][Split]_vars

-----------------------------------------------------------------------------
(* auto_assign_subjects_for_student on its own: one call per behaviour *)

Grade9 == <<"G", "r", "a", "d", "e", " ", "9">>
Grade10 == <<"G", "r", "a", "d", "e", " ", "1", "0">>
Grade12 == <<"G", "r", "a", "d", "e", " ", "1", "2">>
Grade13 == <<"G", "r", "a", "d", "e", " ", "1", "3">>
Nine11 == <<"9", "-", "1", "1">>
NoDigits == <<"K">>

\* The grade-level strings of the students enrolled.
EnrollGradeLevels == {<<>>, NoDigits, Grade6, Grade7, Grade9, Grade10, Grade11, Grade12,
                      Grade13, Nine11}

\* A row of subjects as create_subject stores it, with its track.
TrackedSubject(id, band, gmin, gmax, track, teacher) ==
    [Subject(id, <<"Elective", id>>, "Applied", band, gmin, gmax, teacher)
        EXCEPT !.track = track]

\* The rows the catalogs of the enrollment are drawn from.
EnrollPool ==
    { TrackedSubject(1, "JHS", 9, 9, "", 1),
      TrackedSubject(2, "JHS", None, None, "STEM", None),
      TrackedSubject(3, "JHS", 7, 8, "", None),
      TrackedSubject(4, "SHS", 11, 12, "STEM", None),
      TrackedSubject(5, "SHS", 11, None, "ABM", 1),
      TrackedSubject(6, "JHS", None, 9, "ABM", None),
      TrackedSubject(7, "SHS", None, 11, "", None) }

\* The section argument: None, a section without a track and two with one.
EnrollSections ==
    { NoSection,
      [id |-> 1, level_band |-> "JHS", grade_level |-> Grade9, track |-> ""],
      [id |-> 2, level_band |-> "SHS", grade_level |-> Grade11, track |-> "STEM"],
      [id |-> 3, level_band |-> "", grade_level |-> Grade9, track |-> "ABM"] }

\* The rows student_subjects holds before the call: none, a row of the student
\* from an enrollment without a section, a row of another student, and a row of
\* the student from an enrollment through section 3, active or with the active
\* column set to 0 (the column admits it; no handler writes or reads it).
PriorEnrollments ==
    { <<>>,
      <<[student_id |-> 1, subject_id |-> 1, teacher_id |-> None, section_id |-> None,
         active |-> 1]>>,
      <<[student_id |-> 2, subject_id |-> 2, teacher_id |-> None, section_id |-> 1,
         active |-> 1]>>,
      <<[student_id |-> 1, subject_id |-> 1, teacher_id |-> None, section_id |-> 3,
         active |-> 1]>>,
      <<[student_id |-> 1, subject_id |-> 1, teacher_id |-> None, section_id |-> 3,
         active |-> 0]>> }

\* The student's own section_id at the call: the id of the section passed, as
\* both callers leave it, or the id of section 2 (the value a Student object
\* loaded before the bulk update of assign_students_to_section still holds).
OwnSections == {None, 1, 2, 3}

InitAssign ==
    /\ subjects \in SUBSET EnrollPool
    /\ \E grade_level \in EnrollGradeLevels, section \in EnrollSections,
          own \in OwnSections :
          /\ own \in {section.id, 2}
          /\ students = {[id |-> 1, student_number |-> "S1", grade_level |-> grade_level,
                          section_id |-> own]}
          /\ call = [fn |-> "auto_assign_subjects_for_student", section |-> section,
                     before |-> <<>>, created |-> 0, done |-> FALSE]
    /\ student_subjects \in PriorEnrollments
    /\ rooms = {}
    /\ schedules = <<>>
    /\ resp = Response("none", 0, "")
    /\ assign_calls = <<>>
    /\ users = {}
    /\ nreq = 0
    /\ runs = NoRuns

\* created = auto_assign_subjects_for_student(session, student, section), and
\* the caller's session.commit()
AutoAssign ==
    /\ call.fn = "auto_assign_subjects_for_student"
    /\ ~call.done
    /\ \E student \in students :
          LET out == auto_assign_subjects_for_student(student_subjects, student_subjects,
                                                      subjects, student, call.section)
          IN  /\ student_subjects' = Commit(student_subjects, out.rows)
              /\ call' = [call EXCEPT !.before = student_subjects,
                                      !.created = out.created, !.done = TRUE]
    /\ UNCHANGED <<subjects, rooms, schedules, resp, students, assign_calls, users, nreq,
                   runs>>

SpecAssign == InitAssign /\ [][AutoAssign]_vars

-----------------------------------------------------------------------------
(* generate_slots and subject_weekly_hours on their own: one call per behaviour *)

\* The categories create_subject and update_subject accept.
allowed_cats == {"Core", "Applied", "Specialized", "Institutional"}

\* The subjects handed to subject_weekly_hours: every stem of the table and one
\* outside it, without a grade suffix and with the suffixes 7, 10 and 11, in
\* both bands and every category.
HoursSubjects ==
    { Subject(1, <<stem, grade>>, category, band, None, None, None) :
        stem \in JHSNames4 \cup JHSNames5 \cup SHSNames3 \cup SHSNames4 \cup {"Robotics"},
        grade \in {None, 7, 10, 11},
        category \in allowed_cats,
        band \in {"JHS", "SHS"} }

InitHelpers ==
    /\ call \in {[fn |-> "generate_slots", include_saturday |-> b, slots |-> <<>>,
                  done |-> FALSE] : b \in BOOLEAN}
             \cup {[fn |-> "subject_weekly_hours", subj |-> sb, hours |-> 0,
                    blocks |-> <<>>, done |-> FALSE] : sb \in HoursSubjects}
    /\ subjects = {}
    /\ rooms = {}
    /\ schedules = <<>>
    /\ resp = Response("none", 0, "")
    /\ students = {}
    /\ student_subjects = <<>>
    /\ assign_calls = <<>>
    /\ users = {}
    /\ nreq = 0
    /\ runs = NoRuns

GenerateSlots ==
    /\ call.fn = "generate_slots"
    /\ ~call.done
    /\ call' = [call EXCEPT !.slots = generate_slots(call.include_saturday), !.done = TRUE]
    /\ UNCHANGED <<subjects, rooms, schedules, resp, students, student_subjects,
                   assign_calls, users, nreq, runs>>

\* hours = subject_weekly_hours(subj); blocks = split_hours_into_blocks(hours)
SubjectWeeklyHours ==
    /\ call.fn = "subject_weekly_hours"
    /\ ~call.done
    /\ call' = [call EXCEPT
                  !.hours = subject_weekly_hours(call.subj),
                  !.blocks = split_hours_into_blocks(subject_weekly_hours(call.subj)),
                  !.done = TRUE]
    /\ UNCHANGED <<subjects, rooms, schedules, resp, students, student_subjects,
                   assign_calls, users, nreq, runs>>

NextHelpers == GenerateSlots \/ SubjectWeeklyHours

SpecHelpers == InitHelpers /\ [][NextHelpers]_vars

-----------------------------------------------------------------------------
(* has_conflict on its own: the index is built by record_block from a list of *)
(* blocks, then asked about one block                                          *)

\* The intervals of the blocks: whole hours from 07:00 to 10:00, start before end.
ConflictIntervals ==
    { <<HourStr(pr[1]), HourStr(pr[2])>> : pr \in {q \in (7..10) \X (7..10) : q[1] < q[2]} }

\* The owners: unset, or the id of a section, a teacher or a room.
ConflictKeys == {None, 1, 2}

\* The blocks recorded: <<day, start, end, key>>.
ConflictBlocks ==
    { <<day, iv[1], iv[2], k>> : day \in 0..1, iv \in ConflictIntervals, k \in ConflictKeys }

\* The lists of blocks an index is built from.
ConflictLists ==
    {<<>>} \cup { <<b>> : b \in ConflictBlocks }
           \cup { <<a, b>> : a \in ConflictBlocks,
                             b \in {c \in ConflictBlocks : c[2] = HourStr(7)} }

\* The index after record_block for each block of the list, in order.
RECURSIVE RecordAll(_, _)
RecordAll(entries, blocks) ==
    IF blocks = <<>> THEN entries
    ELSE RecordAll(record_block(entries, Head(blocks)[1], Head(blocks)[2], Head(blocks)[3],
                                Head(blocks)[4]),
                   Tail(blocks))

InitConflict ==
    /\ call \in {[fn |-> "has_conflict", recorded |-> blocks, day |-> day,
                  start |-> iv[1], end |-> iv[2], key |-> key, result |-> FALSE,
                  done |-> FALSE] :
                    blocks \in ConflictLists, day \in 0..2,
                    iv \in {<<HourStr(8), HourStr(9)>>, <<HourStr(7), HourStr(10)>>},
                    key \in ConflictKeys}
    /\ subjects = {}
    /\ rooms = {}
    /\ schedules = <<>>
    /\ resp = Response("none", 0, "")
    /\ students = {}
    /\ student_subjects = <<>>
    /\ assign_calls = <<>>
    /\ users = {}
    /\ nreq = 0
    /\ runs = NoRuns

HasConflict ==
    /\ call.fn = "has_conflict"
    /\ ~call.done
    /\ call' = [call EXCEPT
                  !.result = has_conflict(RecordAll(<<>>, call.recorded), call.day,
                                          call.start, call.end, call.key),
                  !.done = TRUE]
    /\ UNCHANGED <<subjects, rooms, schedules, resp, students, student_subjects,
                   assign_calls, users, nreq, runs>>

SpecConflict == InitConflict /\ [][HasConflict]_vars

-----------------------------------------------------------------------------
(* Vocabulary of the properties *)

Minutes(t) == t[1] * 60 + t[2]

\* Two rows of the schedules table meet: same day, and the half-open intervals
\* [start, end) have a minute in common.
Meet(a, b) ==
    /\ a.day_of_week = b.day_of_week
    /\ Minutes(a.start_time) < Minutes(b.end_time)
    /\ Minutes(b.start_time) < Minutes(a.end_time)

\* Two rows share a section, a teacher that is set, or a room.
Share(a, b) ==
    \/ a.section_id = b.section_id
    \/ a.teacher_id # None /\ a.teacher_id = b.teacher_id
    \/ a.room_id = b.room_id

DoubleBooked(a, b) == Meet(a, b) /\ Share(a, b)

RowsOf(rows, sid) == SelectSeq(rows, LAMBDA r : r.section_id = sid)

RowsNotOf(rows, sid) == SelectSeq(rows, LAMBDA r : r.section_id # sid)

\* The last request was a run of the allocator that committed.
RunDone(r) == r.op = "auto_generate" /\ r.status = 200

\* The section a committed run was for.
RunSection(r) == r.section_id[2]

\* The hourly slots of a day, as start hours, in slot order.
DayHours == <<7, 8, 9, 10, 11, 13, 14, 15, 16>>

-----------------------------------------------------------------------------
(* C1 *)

\* C1: within one run of auto_generate_schedule, no entry the run creates is
\* double booked (same day, overlapping half-open intervals, same section, same
\* set teacher or same room) with an entry of another section that was persisted
\* before the run, nor with another entry created in the same run.
C1_RunCreatesNoOverlap ==
    [][RunDone(resp') /\ nreq' = nreq + 1 =>
          \A i \in 1..Len(resp'.added) :
             /\ \A j \in 1..Len(resp'.added) :
                   j # i => ~DoubleBooked(resp'.added[i], resp'.added[j])
             /\ \A k \in 1..Len(schedules) :
                   schedules[k].section_id # RunSection(resp')
                      => ~DoubleBooked(resp'.added[i], schedules[k])]_vars

\* A run placed an entry in a room and on a day where another section already
\* had an entry.
C1_Witness ==
    /\ RunDone(resp)
    /\ \E i \in 1..Len(resp.added), k \in 1..Len(schedules) :
          /\ schedules[k].section_id # RunSection(resp)
          /\ schedules[k].room_id = resp.added[i].room_id
          /\ schedules[k].day_of_week = resp.added[i].day_of_week

-----------------------------------------------------------------------------
(* C2 *)

\* C2: in every state reached from the empty schedule by allocator runs, room
\* creations, room deletions and changes of a subject's teacher, no two persisted
\* entries that share a section, a set teacher or a room overlap on a day.
C2_NoDoubleBooking ==
    \A i, j \in 1..Len(schedules) : i # j => ~DoubleBooked(schedules[i], schedules[j])

\* After a change of a subject's teacher, two sections have entries in the same
\* room on the same day, and the two sections have entries with the same teacher.
C2_Witness ==
    /\ \E i, j \in 1..Len(schedules) :
          /\ schedules[i].section_id # schedules[j].section_id
          /\ schedules[i].room_id = schedules[j].room_id
          /\ schedules[i].day_of_week = schedules[j].day_of_week
    /\ \E i, j \in 1..Len(schedules) :
          /\ schedules[i].section_id # schedules[j].section_id
          /\ schedules[i].teacher_id # None
          /\ schedules[i].teacher_id = schedules[j].teacher_id

-----------------------------------------------------------------------------
(* C3 *)

\* C3: for every load L >= 1 the blocks of split_hours_into_blocks(L) sum to L
\* and none is longer than 3.
C3_SplitSumsAndCaps ==
    (call.fn = "split_hours_into_blocks" /\ call.done /\ call.hours >= 1) =>
        /\ SumSeq(call.blocks) = call.hours
        /\ \A i \in 1..Len(call.blocks) : call.blocks[i] <= 3

-----------------------------------------------------------------------------
(* C4 *)

\* C4: every entry created for a block of length b ends exactly b hours after
\* it starts and does not contain the lunch hour 12:00-13:00.
C4_BlockIsContiguous ==
    RunDone(resp) =>
        \A i \in 1..Len(resp.created) :
           LET c == resp.created[i]
           IN  /\ Minutes(c.end) = Minutes(c.start) + 60 * c.blk
               /\ ~(Minutes(c.start) < 13 * 60 /\ 12 * 60 < Minutes(c.end))

-----------------------------------------------------------------------------
(* C5 *)

\* C5: after a run of auto_generate_schedule for section S that commits, the
\* persisted entries of S are exactly the entries the run created, and the
\* persisted entries of every other section are what they were before the run.
C5_RunReplacesOnlyItsSection ==
    [][RunDone(resp') /\ nreq' = nreq + 1 =>
          /\ RowsOf(schedules', RunSection(resp')) = resp'.added
          /\ RowsNotOf(schedules', RunSection(resp')) = RowsNotOf(schedules, RunSection(resp'))
      ]_vars

\* A run committed for a section that had entries from the run before, while
\* another section has entries too.
C5_Witness ==
    /\ RunDone(resp)
    /\ resp.repeat
    /\ resp.first.created # <<>>
    /\ resp.added # <<>>
    /\ RowsNotOf(schedules, RunSection(resp)) # <<>>

-----------------------------------------------------------------------------
(* C6 *)

\* C6: running auto_generate_schedule twice in a row for the same section with
\* the same Saturday flag returns the same created list and the same failed
\* list both times.
C6_RerunIsIdentical ==
    (RunDone(resp) /\ resp.repeat) =>
        /\ resp.created = resp.first.created
        /\ resp.failed = resp.first.failed

-----------------------------------------------------------------------------
(* C7 *)

\* The rows the run takes into its indexes: the rows persisted before the run
\* but those the preload loop's comparison with the request's section_id skips.
SeenBy(r, rows) == SelectSeq(rows, LAMBDA row : ~(r.section_id[1] = "int" /\ row.section_id = r.section_id[2]))

\* A row that keeps section sid, teacher tid or room rid from hour slot run
\* [from, to) of a day.
Blocks(row, day, from, to, sid, tid, rid) ==
    /\ row.day_of_week = day
    /\ Minutes(row.start_time) < 60 * to
    /\ 60 * from < Minutes(row.end_time)
    /\ \/ row.section_id = sid
       \/ tid # None /\ row.teacher_id = tid
       \/ row.room_id = rid

\* The number of blocks the subjects of a section are split into.
RECURSIVE BlockCount(_)
BlockCount(subjs) ==
    IF subjs = <<>> THEN 0
    ELSE Len(split_hours_into_blocks(subject_weekly_hours(Head(subjs))))
         + BlockCount(Tail(subjs))

\* C7: a block that cannot be placed is recorded in the failed list with the
\* subject's name and the block length asked for, the run goes on with the
\* remaining blocks and subjects (every block is either created or failed) and
\* commits every entry it placed; and a block is recorded as failed only if,
\* when it was processed, every run of that length on every day was kept, among
\* the entries the run had loaded and created, by an entry of the section, by an
\* entry of the subject's teacher, or in every room by an entry of that room.
C7_FailuresAreRecordedAndJustified ==
    [][RunDone(resp') /\ nreq' = nreq + 1 =>
          LET r == resp'
              sid == RunSection(r)
              section == CHOOSE sec \in Sections : sec.id = sid
              days == IF r.allow_saturday THEN 0..5 ELSE 0..4
              seen == SeenBy(r, schedules)
          IN  /\ Len(r.created) + Len(r.failed)
                    = BlockCount(subjects_for_section(subjects', section))
              /\ \A i \in 1..Len(r.added) :
                    \E k \in 1..Len(schedules') : schedules'[k] = r.added[i]
              /\ \A f \in 1..Len(r.failed) :
                    LET fail == r.failed[f]
                        subj == CHOOSE sb \in subjects' : sb.id = fail.subject_id
                        rows == seen \o SubSeq(r.added, 1, fail.after)
                    IN  /\ fail.subject = subj.name
                        /\ \E b \in 1..Len(split_hours_into_blocks(subject_weekly_hours(subj))) :
                              split_hours_into_blocks(subject_weekly_hours(subj))[b] = fail.hours
                        /\ \A day \in days, idx \in 1..(Len(DayHours) - fail.hours + 1) :
                              LET from == DayHours[idx]
                                  to == DayHours[idx + fail.hours - 1] + 1
                              IN  \/ \E k \in 1..Len(rows) :
                                        Blocks(rows[k], day, from, to, sid, None, 0)
                                  \/ /\ Truthy(subj.teacher_id)
                                     /\ \E k \in 1..Len(rows) :
                                           Blocks(rows[k], day, from, to, 0, subj.teacher_id, 0)
                                  \/ \A room \in rooms' :
                                        \E k \in 1..Len(rows) :
                                           Blocks(rows[k], day, from, to, 0, None, room.id)
      ]_vars

\* A run committed with some blocks created and some failed, and a block was
\* created after the first failure.
C7_Witness ==
    /\ RunDone(resp)
    /\ resp.failed # <<>>
    /\ resp.failed[1].after < Len(resp.created)
    /\ \A i \in 1..Len(resp.added) : \E k \in 1..Len(schedules) : schedules[k] = resp.added[i]

-----------------------------------------------------------------------------
(* C8 *)

\* The last request was an allocator request rejected for an input error.
Rejected(r) == r.op = "auto_generate" /\ r.status \in {400, 404}

\* C8: a request auto_generate_schedule rejects for an input error leaves the
\* schedule entries, the rooms and the subject catalog as they were.
C8_RejectionChangesNothing ==
    [][Rejected(resp') /\ nreq' = nreq + 1 =>
          /\ schedules' = schedules
          /\ rooms' = rooms
          /\ subjects' = subjects]_vars

\* C8 as amended: a rejected request leaves the schedule entries as they were;
\* the rooms table changes only from empty to the default room "Room A", and
\* only when the section exists; the catalog changes only from empty to the
\* seeded catalog, and only when a section id was given.
C8_RejectionChangesNoEntry ==
    [][Rejected(resp') /\ nreq' = nreq + 1 =>
          /\ schedules' = schedules
          /\ \/ rooms' = rooms
             \/ /\ rooms = {}
                /\ resp'.error = "No subjects available"
                /\ \E id \in RoomIds : rooms' = {[id |-> id, name |-> "Room A"]}
          /\ \/ subjects' = subjects
             \/ /\ subjects = {}
                /\ resp'.error # "section_id is required"
                /\ subjects' = seed_subjects_data]_vars

\* A request for a section without eligible subjects was rejected while other
\* sections had entries and more than the default room existed.
C8_Witness ==
    /\ Rejected(resp)
    /\ resp.error = "No subjects available"
    /\ schedules # <<>>
    /\ Cardinality(rooms) > 1

-----------------------------------------------------------------------------
(* C9 *)

\* C9: when a persistence error occurs after the section's old entries were
\* deleted in the session, the persisted schedule entries are those from before
\* the run, and the caller gets one error response with no result lists.
C9_FailedRunIsRolledBack ==
    [][(resp'.op = "auto_generate" /\ resp'.error = "Unexpected error"
         /\ nreq' = nreq + 1) =>
          /\ schedules' = schedules
          /\ resp'.status = 500
          /\ resp'.created = <<>> /\ resp'.failed = <<>>]_vars

\* A run for a section that has entries failed with a persistence error, and
\* the entries are still there.
C9_Witness ==
    /\ resp.op = "auto_generate"
    /\ resp.error = "Unexpected error"
    /\ \E k \in 1..Len(schedules) : schedules[k].section_id = resp.section_id[2]

-----------------------------------------------------------------------------
(* C10 *)

\* C10: after any sequence of auto_assign_subjects_for_student calls made by
\* create_student and assign_students_to_section, student_subjects holds at
\* most one row per (student, subject), and a call that follows a call for the
\* same student and section with the same catalog creates no row.
C10_OneRecordPerPair ==
    /\ \A i, j \in 1..Len(student_subjects) :
          i # j => ~(/\ student_subjects[i].student_id = student_subjects[j].student_id
                     /\ student_subjects[i].subject_id = student_subjects[j].subject_id)
    /\ \A i, j \in 1..Len(assign_calls) :
          (/\ i < j
           /\ assign_calls[i].student_id = assign_calls[j].student_id
           /\ assign_calls[i].section_id = assign_calls[j].section_id
           /\ assign_calls[i].catalog = assign_calls[j].catalog)
             => assign_calls[j].created = 0

\* A call for a student and a section came next after a call for the same
\* student and section that created rows, and the student's rows are persisted.
C10_Witness ==
    /\ resp.op = "assign_students"
    /\ resp.status = 200
    /\ \E j \in 2..Len(assign_calls) :
          /\ assign_calls[j - 1].student_id = assign_calls[j].student_id
          /\ assign_calls[j - 1].section_id = assign_calls[j].section_id
          /\ assign_calls[j - 1].catalog = assign_calls[j].catalog
          /\ assign_calls[j - 1].created > 0
          /\ \E k \in 1..Len(student_subjects) :
                student_subjects[k].student_id = assign_calls[j].student_id

-----------------------------------------------------------------------------
(* C11 *)

\* The band of a grade number: junior for 7..10, senior for 11..12.
BandOf(n) == IF n \in 7..10 THEN "JHS" ELSE IF n \in 11..12 THEN "SHS" ELSE ""

\* The catalog subjects a student of grade number n is to be linked to under a
\* section track: band, grade bracket, and not excluded by track.
Eligible(catalog, n, section_track) ==
    { sb \in catalog :
        /\ BandOf(n) # ""
        /\ sb.level_band = BandOf(n)
        /\ (sb.grade_min # None => sb.grade_min <= n)
        /\ (sb.grade_max # None => sb.grade_max >= n)
        /\ ~(sb.track # "" /\ section_track # "" /\ sb.track # section_track) }

\* The call of auto_assign_subjects_for_student is over.
Assigned == call.fn = "auto_assign_subjects_for_student" /\ call.done

\* The student of the call.
TheStudent == CHOOSE st \in students : TRUE

\* The subjects student_id is linked to by rows.
LinkedIn(rows, student_id) ==
    {rows[i].subject_id : i \in {k \in 1..Len(rows) : rows[k].student_id = student_id}}

\* C11: after auto_assign_subjects_for_student the student is linked to every
\* catalog subject of the band of the student's grade number (7-10 junior,
\* 11-12 senior) whose grade_min, if set, is <= the number and whose grade_max,
\* if set, is >= it, and which the track does not exclude (subject and section
\* both declare a track and the two differ); the rows the call adds are one row
\* per such subject the student was not linked to yet, carrying the subject's
\* teacher and the section's id (the student's own without a section), and
\* nothing else; without a band or a grade number the call adds nothing.
C11_LinksExactlyTheEligible ==
    Assigned =>
        LET st == TheStudent
            n == parse_grade_number(st.grade_level)
            want == IF n = None THEN {}
                    ELSE {sb.id : sb \in Eligible(subjects, n, call.section.track)}
            had == LinkedIn(call.before, st.id)
            new == SubSeq(student_subjects, Len(call.before) + 1, Len(student_subjects))
        IN  /\ SubSeq(student_subjects, 1, Len(call.before)) = call.before
            /\ LinkedIn(student_subjects, st.id) = had \cup want
            /\ {new[i].subject_id : i \in 1..Len(new)} = want \ had
            /\ Len(new) = Cardinality(want \ had)
            /\ call.created = Len(new)
            /\ \A i \in 1..Len(new) :
                  /\ new[i].student_id = st.id
                  /\ new[i].section_id = IF call.section.id # None THEN call.section.id
                                         ELSE st.section_id
                  /\ \E sb \in subjects : sb.id = new[i].subject_id
                                          /\ sb.teacher_id = new[i].teacher_id

\* A call under a section with a track linked a subject of that track and a
\* subject without a track, and left out a catalog subject of another track and
\* a catalog subject of the band whose grades do not bracket the student's.
C11_Witness ==
    /\ Assigned
    /\ call.section.track # ""
    /\ \E a, b, c, d \in subjects :
          /\ a.track = call.section.track /\ a.id \in LinkedIn(student_subjects, 1)
          /\ b.track = "" /\ b.id \in LinkedIn(student_subjects, 1)
          /\ c.track \notin {"", call.section.track}
          /\ c.level_band = a.level_band /\ c.id \notin LinkedIn(student_subjects, 1)
          /\ d.track = "" /\ d.level_band = a.level_band
          /\ d.id \notin LinkedIn(student_subjects, 1)

-----------------------------------------------------------------------------
(* C12 *)

\* C12: for a student whose grade level is "Grade 9" and whose section has no
\* track, or who has no section, the student is linked after auto-enrollment to
\* every catalog subject of the junior band whose grade_min and grade_max, when
\* set, bracket 9, whatever the subject's track.
C12_Grade9WithoutSectionTrack ==
    (Assigned /\ TheStudent.grade_level = Grade9 /\ call.section.track = "") =>
        \A sb \in subjects :
            (/\ sb.level_band = "JHS"
             /\ (sb.grade_min = None \/ sb.grade_min <= 9)
             /\ (sb.grade_max = None \/ sb.grade_max >= 9))
                => sb.id \in LinkedIn(student_subjects, TheStudent.id)

\* A "Grade 9" student in a section without a track was linked by the call to
\* two junior subjects of two different tracks.
C12_Witness ==
    /\ Assigned
    /\ TheStudent.grade_level = Grade9
    /\ call.section.id # None
    /\ call.section.track = ""
    /\ call.created >= 2
    /\ \E a, b \in subjects :
          /\ a.track # "" /\ b.track # "" /\ a.track # b.track
          /\ {a.id, b.id} \subseteq LinkedIn(student_subjects, 1)
          /\ {a.id, b.id} \cap LinkedIn(call.before, 1) = {}

-----------------------------------------------------------------------------
(* C16 *)

\* C16: generate_slots emits, for each day 0..4 and for day 5 only when Saturday
\* is included, the nine one-hour slots that start at 07, 08, 09, 10, 11, 13,
\* 14, 15, 16, in that order, days ascending: 45 slots without Saturday and 54
\* with it; no slot starts at 12:00, none ends after 17:00, none is on day 6.
C16_SlotsAreTheNineHoursOfEachDay ==
    (call.fn = "generate_slots" /\ call.done) =>
        LET days == IF call.include_saturday THEN 6 ELSE 5
            slots == call.slots
        IN  /\ Len(slots) = 9 * days
            /\ Len(slots) = IF call.include_saturday THEN 54 ELSE 45
            /\ \A d \in 0..(days - 1), k \in 1..9 :
                  LET sl == slots[9 * d + k]
                  IN  /\ sl[1] = d
                      /\ Minutes(sl[2]) = 60 * DayHours[k]
                      /\ Minutes(sl[3]) = 60 * DayHours[k] + 60
            /\ \A i \in 1..Len(slots) :
                  /\ Minutes(slots[i][2]) # 12 * 60
                  /\ Minutes(slots[i][3]) <= 17 * 60
                  /\ slots[i][1] # 6
                  /\ (slots[i][1] = 5 => call.include_saturday)

\* A call with Saturday included returned slots of day 5.
C16_Witness ==
    /\ call.fn = "generate_slots"
    /\ call.done
    /\ call.include_saturday
    /\ \E i \in 1..Len(call.slots) : call.slots[i][1] = 5

-----------------------------------------------------------------------------
(* C17 *)

-----------------------------------------------------------------------------
(* C18 *)

\* C18: subject_weekly_hours returns the value of the static table when the
\* subject's name is a key of the table, and otherwise 4 for a subject of the
\* junior band, 3 for a subject of the senior band whose category is Core and 4
\* for a subject of the senior band of any other category.
C18_TableThenBandFallback ==
    (call.fn = "subject_weekly_hours" /\ call.done) =>
        LET sb == call.subj
        IN  /\ (InTable(sb.name) => call.hours = SUBJECT_WEEKLY_HOURS(sb.name))
            /\ (~InTable(sb.name) /\ sb.level_band = "JHS" => call.hours = 4)
            /\ (~InTable(sb.name) /\ sb.level_band = "SHS" /\ sb.category = "Core"
                  => call.hours = 3)
            /\ (~InTable(sb.name) /\ sb.level_band = "SHS" /\ sb.category # "Core"
                  => call.hours = 4)

\* A call for a senior subject that is not Core and whose name is a junior stem
\* with the suffix 11, which is no key of the table, returned 4.
C18_Witness ==
    /\ call.fn = "subject_weekly_hours"
    /\ call.done
    /\ call.subj.name = <<"Mathematics", 11>>
    /\ call.subj.level_band = "SHS"
    /\ call.subj.category = "Specialized"
    /\ call.hours = 4

-----------------------------------------------------------------------------
(* C20 *)

\* The blocks of the subjects in processing order: <<subject id, block length>>
\* for each subject in order and each block of its split in order.
RECURSIVE BlockList(_)
BlockList(subjs) ==
    IF subjs = <<>> THEN <<>>
    ELSE LET blocks == split_hours_into_blocks(subject_weekly_hours(Head(subjs)))
         IN  [b \in 1..Len(blocks) |-> <<Head(subjs).id, blocks[b]>>]
             \o BlockList(Tail(subjs))

\* The run of blk generated slots of a day that starts at the idx-th slot is
\* open among rows: no row of the section, no row of the teacher (when set) and
\* a room of rs without a row in it meets the run's interval.
Open(rows, rs, day, idx, blk, sid, tid) ==
    LET from == DayHours[idx]
        to == DayHours[idx + blk - 1] + 1
    IN  /\ \A k \in 1..Len(rows) : ~Blocks(rows[k], day, from, to, sid, None, 0)
        /\ Truthy(tid) => \A k \in 1..Len(rows) : ~Blocks(rows[k], day, from, to, 0, tid, 0)
        /\ \E room \in rs :
              \A k \in 1..Len(rows) : ~Blocks(rows[k], day, from, to, 0, None, room.id)

\* C20: first fit.  Every block a run of auto_generate_schedule places sits at
\* the least (day, start) in lexicographic order, days ascending from 0 and
\* starts ascending within the day, among the runs of that many consecutive
\* generated slots of a day that have no conflict with the section's entries,
\* none with the entries of the subject's teacher (when it has one) and a room
\* without conflict, the entries being those loaded at the start of the run and
\* those the run placed before; and the blocks are processed subject by subject
\* in catalog order, each subject's blocks in split order.
C20_FirstFit ==
    [][RunDone(resp') /\ nreq' = nreq + 1 =>
          LET r == resp'
              sid == RunSection(r)
              section == CHOOSE sec \in Sections : sec.id = sid
              last_day == IF r.allow_saturday THEN 5 ELSE 4
          IN  \A seen \in {SeenBy(r, schedules)},
                 order \in {BlockList(subjects_for_section(subjects', section))} :
              /\ Len(order) = Len(r.created) + Len(r.failed)
              /\ \A f \in 1..Len(r.failed) :
                    order[r.failed[f].after + f] = <<r.failed[f].subject_id, r.failed[f].hours>>
              /\ \A i \in 1..Len(r.added) :
                    LET e == r.added[i]
                        blk == r.created[i].blk
                        before == Cardinality({f \in 1..Len(r.failed) : r.failed[f].after < i})
                    IN  \A rows \in {seen \o SubSeq(r.added, 1, i - 1)} :
                        /\ order[i + before] = <<e.subject_id, blk>>
                        /\ e.day_of_week \in 0..last_day
                        /\ \E idx \in 1..(Len(DayHours) - blk + 1) :
                              /\ Minutes(e.start_time) = 60 * DayHours[idx]
                              /\ Minutes(e.end_time) = 60 * (DayHours[idx + blk - 1] + 1)
                              /\ Open(rows, rooms', e.day_of_week, idx, blk, sid, e.teacher_id)
                              /\ \A j \in 1..(idx - 1) :
                                    ~Open(rows, rooms', e.day_of_week, j, blk, sid, e.teacher_id)
                        /\ \A day \in 0..(e.day_of_week - 1), j \in 1..(Len(DayHours) - blk + 1) :
                              ~Open(rows, rooms', day, j, blk, sid, e.teacher_id)
      ]_vars

\* A run placed its first block, of a subject with a teacher, on a later day and
\* not at 07:00, past the runs that entries of another section kept.
C20_Witness ==
    /\ RunDone(resp)
    /\ RowsNotOf(schedules, RunSection(resp)) # <<>>
    /\ resp.added # <<>>
    /\ resp.added[1].day_of_week > 0
    /\ resp.added[1].teacher_id # None
    /\ Minutes(resp.added[1].start_time) > 7 * 60

-----------------------------------------------------------------------------
(* C13 *)

\* The number of generated hourly slots an entry keeps.
SlotsKept(e) ==
    Cardinality({k \in 1..Len(DayHours) :
                    /\ Minutes(e.start_time) <= 60 * DayHours[k]
                    /\ 60 * DayHours[k] < Minutes(e.end_time)})

\* The entries a run created for a subject are two, for blocks of first and
\* second hours, in that order.
PlacedAs(r, subject_id, first, second) ==
    \E i, j \in 1..Len(r.added) :
        /\ i < j
        /\ {k \in 1..Len(r.added) : r.added[k].subject_id = subject_id} = {i, j}
        /\ r.created[i].blk = first /\ SlotsKept(r.added[i]) = first
        /\ r.created[j].blk = second /\ SlotsKept(r.added[j]) = second

\* C13: a run without Saturday for a grade-7 section of the junior band whose
\* eligible subjects are exactly two, of weekly loads 5 and 4, with exactly one
\* room and no schedule entry persisted, places the 5-hour subject as blocks
\* [3, 2] and the 4-hour subject as blocks [2, 2]: four entries are created and
\* persisted and the failed list is empty.
C13_TwoSubjectsOneRoomAllPlaced ==
    [][(/\ RunDone(resp') /\ nreq' = nreq + 1
        /\ ~resp'.allow_saturday
        /\ schedules = <<>>
        /\ Cardinality(rooms) = 1
        /\ LET section == CHOOSE sec \in Sections : sec.id = RunSection(resp')
               subjs == subjects_for_section(subjects, section)
           IN  /\ parse_grade_number(section.grade_level) = 7
               /\ Len(subjs) = 2
               /\ {subject_weekly_hours(subjs[1]), subject_weekly_hours(subjs[2])} = {4, 5})
          =>
          LET section == CHOOSE sec \in Sections : sec.id = RunSection(resp')
              subjs == subjects_for_section(subjects, section)
              five == CHOOSE sb \in SeqToSet(subjs) : subject_weekly_hours(sb) = 5
              four == CHOOSE sb \in SeqToSet(subjs) : subject_weekly_hours(sb) = 4
          IN  /\ resp'.failed = <<>>
              /\ Len(resp'.created) = 4
              /\ Len(resp'.added) = 4
              /\ schedules' = resp'.added
              /\ PlacedAs(resp', five.id, 3, 2)
              /\ PlacedAs(resp', four.id, 2, 2)
              /\ \A i \in 1..4 : resp'.created[i].subject
                                    = (CHOOSE sb \in subjects : sb.id = resp'.added[i].subject_id).name
      ]_vars

\* Such a run committed with the 4-hour subject first in the catalog and both
\* subjects taught by the same teacher.
C13_Witness ==
    /\ RunDone(resp)
    /\ ~resp.allow_saturday
    /\ Cardinality(rooms) = 1
    /\ Cardinality(subjects) = 2
    /\ Len(resp.created) = 4
    /\ schedules = resp.added
    /\ resp.created[1].blk = 2
    /\ resp.created[3].blk = 3
    /\ \A sb \in subjects : sb.teacher_id = 1

-----------------------------------------------------------------------------
(* C14 *)

\* The generated slots <<day, k>> (k-th hour of the day) of days 0..last_day in
\* which teacher tid has no row among rows.
FreeHoursOf(rows, tid, last_day) ==
    { dk \in (0..last_day) \X (1..Len(DayHours)) :
        \A i \in 1..Len(rows) :
            ~Blocks(rows[i], dk[1], DayHours[dk[2]], DayHours[dk[2]] + 1, 0, tid, 0) }

\* The eligible subjects of the run's section that have teacher tid.
TaughtBy(r, catalog, tid) ==
    LET section == CHOOSE sec \in Sections : sec.id = RunSection(r)
    IN  {sb \in SeqToSet(subjects_for_section(catalog, section)) : sb.teacher_id = tid}

\* The case of C14 for teacher tid: the run r starts from the entries before and
\* the catalog; its section has exactly two subjects with teacher tid, each with
\* a block of 3 in its split, and the entries of the other sections leave the
\* teacher exactly 4 generated slots of the run's days.
TwoSubjectsFourHours(r, before, catalog, tid) ==
    /\ Cardinality(TaughtBy(r, catalog, tid)) = 2
    /\ \A sb \in TaughtBy(r, catalog, tid) :
          \E b \in 1..Len(split_hours_into_blocks(subject_weekly_hours(sb))) :
             split_hours_into_blocks(subject_weekly_hours(sb))[b] = 3
    /\ Cardinality(FreeHoursOf(RowsNotOf(before, RunSection(r)), tid,
                               IF r.allow_saturday THEN 5 ELSE 4)) = 4

\* The run created an entry for a block of 3 of the subject.
Created3(r, subject_id) ==
    \E i \in 1..Len(r.added) : r.added[i].subject_id = subject_id /\ r.created[i].blk = 3

\* The run recorded a block of 3 of the subject as failed.
Failed3(r, subject_id) ==
    \E f \in 1..Len(r.failed) : r.failed[f].subject_id = subject_id /\ r.failed[f].hours = 3

\* C14: when two subjects of a section have the same fixed teacher, each needs
\* a 3-hour block, and the entries of other sections leave that teacher only 4
\* free hours in the slot universe, the run places the 3-hour block of one of
\* the two subjects and records the 3-hour block of the other in the failed
\* list with block length 3.
C14_OnePlacedOneFailed ==
    [][(RunDone(resp') /\ nreq' = nreq + 1) =>
          \A tid \in Teachers :
             TwoSubjectsFourHours(resp', schedules, subjects, tid) =>
                \E x, y \in TaughtBy(resp', subjects, tid) :
                    /\ x # y
                    /\ Created3(resp', x.id)
                    /\ Failed3(resp', y.id)
      ]_vars

\* C14 as amended: in that case, if when the first of the two subjects (the one
\* with the lower id) is processed some run of three consecutive generated
\* slots of a day is open (free of the section's entries, of the teacher's and
\* in some room), the run places the 3-hour block of the first subject and
\* records the 3-hour block of the second in the failed list with length 3;
\* if no such run is open, the 3-hour blocks of both are recorded as failed
\* and neither is placed.
C14_OnePlacedIfThreeInARow ==
    [][(RunDone(resp') /\ nreq' = nreq + 1) =>
          \A tid \in Teachers :
             TwoSubjectsFourHours(resp', schedules, subjects, tid) =>
                LET r == resp'
                    two == TaughtBy(r, subjects, tid)
                    a == CHOOSE sb \in two : \A other \in two : sb.id <= other.id
                    b == CHOOSE sb \in two : sb # a
                    rows == SeenBy(r, schedules)
                            \o SelectSeq(r.added, LAMBDA e : e.subject_id < a.id)
                    open == \E day \in 0..(IF r.allow_saturday THEN 5 ELSE 4),
                               idx \in 1..(Len(DayHours) - 2) :
                               Open(rows, rooms', day, idx, 3, RunSection(r), tid)
                IN  IF open
                    THEN /\ Created3(r, a.id) /\ ~Failed3(r, a.id)
                         /\ Failed3(r, b.id) /\ ~Created3(r, b.id)
                    ELSE /\ Failed3(r, a.id) /\ ~Created3(r, a.id)
                         /\ Failed3(r, b.id) /\ ~Created3(r, b.id)
      ]_vars

\* In that case a run placed the 3-hour block of one of the two subjects and
\* recorded that of the other as failed, while the other section's entries of
\* the teacher are persisted.
C14_Witness ==
    /\ RunDone(resp)
    /\ TwoSubjectsFourHours(resp, schedules, subjects, 1)
    /\ \E x, y \in TaughtBy(resp, subjects, 1) :
          x # y /\ Created3(resp, x.id) /\ Failed3(resp, y.id)
    /\ \E i \in 1..Len(schedules) :
          schedules[i].section_id # RunSection(resp) /\ schedules[i].teacher_id = 1

-----------------------------------------------------------------------------
(* C19 *)

Reverse(s) == [i \in 1..Len(s) |-> s[Len(s) - i + 1]]

\* What a run placed and where, rooms left out: the created list as <<subject,
\* day, start, end>> and the failed list as <<subject, hours>>.
Positions(created, failed) ==
    [created |-> [i \in 1..Len(created) |->
                    <<created[i].subject, created[i].day, created[i].start, created[i].end>>],
     failed |-> [f \in 1..Len(failed) |-> <<failed[f].subject, failed[f].hours>>]]

\* The blocks a run left unplaced.
Unplaced(failed) == {<<failed[f].subject, failed[f].hours>> : f \in 1..Len(failed)}

\* The sections that have eligible subjects in a catalog.
Scheduled(catalog) == {sec \in Sections : subjects_for_section(catalog, sec) # <<>>}

\* C19: there are a section, subjects with fixed teachers, rooms and entries of
\* other sections (among those drawn and the tables as they are) for which the
\* run records a block as failed although a
\* complete conflict-free placement exists (the run with the subjects in the
\* other order finds it), so that changing only the catalog order changes which
\* blocks are placed; and there are such inputs for which changing only the
\* order of the rooms changes which blocks are placed.
C19_SubjectOrRoomOrderChangesPlacement ==
    /\ \E catalog \in ScenarioCatalogs \cup {subjects}, rs \in ScenarioRooms \cup {rooms},
          existing \in ScenarioEntries \cup {schedules}, allow_saturday \in BOOLEAN :
          \E section \in Scheduled(catalog) :
             LET subjs == subjects_for_section(catalog, section)
                 run == Allocate(existing, <<"int", section.id>>, section, RoomsByName(rs),
                                 allow_saturday, subjs)
                 other == Allocate(existing, <<"int", section.id>>, section, RoomsByName(rs),
                                   allow_saturday, Reverse(subjs))
             IN  run.failures # <<>> /\ other.failures = <<>>
    /\ \E catalog \in ScenarioCatalogs \cup {subjects}, rs \in ScenarioRooms \cup {rooms},
          existing \in ScenarioEntries \cup {schedules}, allow_saturday \in BOOLEAN :
          \E section \in Scheduled(catalog) :
             LET subjs == subjects_for_section(catalog, section)
                 run == Allocate(existing, <<"int", section.id>>, section, RoomsByName(rs),
                                 allow_saturday, subjs)
                 other == Allocate(existing, <<"int", section.id>>, section,
                                   Reverse(RoomsByName(rs)), allow_saturday, subjs)
             IN  Unplaced(run.failures) # Unplaced(other.failures)

\* C19 as amended: there are inputs for which the run records a block as failed
\* although a complete conflict-free placement exists, and changing only the
\* catalog order of the subjects changes which blocks are placed (the witness);
\* changing only the order of the rooms never does: the run with the rooms in
\* the reverse order creates entries for the same blocks on the same days at
\* the same times and records the same failures.
C19_RoomOrderChangesNoPlacement ==
    [][(RunDone(resp') /\ nreq' = nreq + 1) =>
          \A section \in {sec \in Sections : sec.id = RunSection(resp')} :
             \A other \in {Allocate(schedules, resp'.section_id, section,
                                    Reverse(RoomsByName(rooms')), resp'.allow_saturday,
                                    subjects_for_section(subjects', section))} :
                Positions(other.created, other.failures)
                    = Positions(resp'.created, resp'.failed)
      ]_vars

\* A run for section 1 with two rooms recorded blocks as failed, while the run
\* on the same entries, rooms and subjects with the subjects in the reverse
\* order places every block without a double booking; and the rooms the run gave
\* are not those the run with the rooms reversed gives.
C19_Witness ==
    /\ RunDone(resp)
    /\ resp.section_id = <<"int", 1>>
    /\ resp.failed # <<>>
    /\ Cardinality(rooms) = 2
    /\ \E section \in {sec \in Sections : sec.id = 1} :
          \E other \in {Allocate(RowsNotOf(schedules, 1), resp.section_id, section,
                                 RoomsByName(rooms), resp.allow_saturday,
                                 Reverse(subjects_for_section(subjects, section)))},
             swapped \in {Allocate(RowsNotOf(schedules, 1), resp.section_id, section,
                                   Reverse(RoomsByName(rooms)), resp.allow_saturday,
                                   subjects_for_section(subjects, section))} :
             /\ other.failures = <<>>
             /\ \A i, j \in 1..Len(other.added) :
                   i # j => ~DoubleBooked(other.added[i], other.added[j])
             /\ \A i \in 1..Len(other.added), k \in 1..Len(schedules) :
                   schedules[k].section_id # 1 => ~DoubleBooked(other.added[i], schedules[k])
             /\ swapped.added # resp.added

-----------------------------------------------------------------------------
(* C15 *)

\* The request in slot p committed.
Committed(p) == runs[p].pc = "done" /\ runs[p].status = 200

\* The requests in slots q and p, for the same section, both committed, q
\* first, and p had issued its delete before q committed.
Interleaved(p, q) ==
    /\ p # q
    /\ Committed(p)
    /\ Committed(q)
    /\ runs[p].section.id = runs[q].section.id
    /\ q \in runs[p].after
    /\ q \notin runs[p].seen_done

\* C15: two runs of auto_generate_schedule for different sections that overlap,
\* each reading the persisted entries before the other commits, both commit,
\* and the allocator does nothing against the double booking that results: a
\* request that reaches the commit without a persistence error and whose
\* section has subjects commits whatever the other request did, and whenever
\* two persisted entries are double booked (same day, overlapping, same room,
\* same set teacher or same section), the later of the two was placed by a run
\* that had read the entries before the earlier was committed, when they are of
\* different sections, or that deleted the section's entries before the run of
\* the earlier committed, when they are of one section.  Runs that do not
\* overlap leave no double booking.
C15_OverlappingRunsBothCommit ==
    /\ \A p \in Slots :
          (/\ runs[p].pc = "done"
           /\ runs[p].fault = "none"
           /\ subjects_for_section(subjects, runs[p].section) # <<>>) => Committed(p)
    /\ \A i, j \in 1..Len(schedules) :
          (i < j /\ DoubleBooked(schedules[i], schedules[j])) =>
             \E p \in Slots :
                /\ Committed(p)
                /\ schedules[j] \in SeqToSet(runs[p].added)
                /\ IF schedules[i].section_id # schedules[j].section_id
                   THEN schedules[i] \notin SeqToSet(runs[p].existing)
                   ELSE \E q \in Slots :
                           /\ Interleaved(p, q)
                           /\ schedules[i] \in SeqToSet(runs[q].added)

\* Two overlapping runs for two different sections both committed, and two
\* persisted entries of the two sections overlap on a day in the same room,
\* and two overlap with the same teacher.
C15_Witness ==
    /\ \A p \in Slots : Committed(p) /\ runs[p].existing = <<>>
    /\ runs[1].section.id # runs[2].section.id
    /\ \E i, j \in 1..Len(schedules) :
          /\ schedules[i].section_id # schedules[j].section_id
          /\ Meet(schedules[i], schedules[j])
          /\ schedules[i].room_id = schedules[j].room_id
    /\ \E i, j \in 1..Len(schedules) :
          /\ schedules[i].section_id # schedules[j].section_id
          /\ Meet(schedules[i], schedules[j])
          /\ schedules[i].teacher_id # None
          /\ schedules[i].teacher_id = schedules[j].teacher_id

-----------------------------------------------------------------------------
(* C21 *)

\* Some row of rows in room rid meets the entry e.
RoomTaken(rows, rid, e) ==
    \E k \in 1..Len(rows) : rows[k].room_id = rid /\ Meet(rows[k], e)

\* C21: the room of every block a run of auto_generate_schedule places is the
\* first room, in ascending order of room name, in which no entry the run has
\* loaded or placed before meets the block's day and interval: the room is free
\* and every room before it in name order is taken; and the list of rooms is
\* never empty, a default room "Room A" being created when the table has none.
C21_FirstFreeRoomByName ==
    [][RunDone(resp') /\ nreq' = nreq + 1 =>
          /\ rooms' # {}
          /\ rooms = {} => \E rm \in rooms' : rooms' = {rm} /\ rm.name = "Room A"
          /\ rooms # {} => rooms' = rooms
          /\ \A seen \in {SeenBy(resp', schedules)} :
             \A i \in 1..Len(resp'.added) :
                \A rows \in {seen \o SubSeq(resp'.added, 1, i - 1)}, e \in {resp'.added[i]} :
                   \E rm \in rooms' :
                      /\ e.room_id = rm.id
                      /\ resp'.created[i].room = rm.name
                      /\ ~RoomTaken(rows, rm.id, e)
                      /\ \A q \in rooms' :
                            NameRank(q.name) < NameRank(rm.name) => RoomTaken(rows, q.id, e)
      ]_vars

\* A run with two rooms placed a block in the second room by name, the first
\* being taken by an entry of another section, and a block in the first.
C21_Witness ==
    /\ RunDone(resp)
    /\ Cardinality(rooms) = 2
    /\ \E i, j \in 1..Len(resp.added), first, second \in rooms :
          /\ NameRank(first.name) < NameRank(second.name)
          /\ resp.added[i].room_id = second.id
          /\ resp.added[j].room_id = first.id
          /\ \E k \in 1..Len(schedules) :
                /\ schedules[k].section_id # RunSection(resp)
                /\ schedules[k].room_id = first.id
                /\ Meet(schedules[k], resp.added[i])

-----------------------------------------------------------------------------
(* C22 *)

\* The blocks recorded for the day asked about, by the owner asked about or with
\* the owner unset on either side.
SameDayAndOwner ==
    { i \in 1..Len(call.recorded) :
        /\ call.recorded[i][1] = call.day
        /\ \/ call.recorded[i][4] = call.key
           \/ call.recorded[i][4] = None
           \/ call.key = None }

\* C22: has_conflict(entries, day, start, end, key) is true exactly when the
\* index holds for that day an interval (s, e, k), k equal to key or one of the
\* two unset, with not (end <= s or start >= e); an interval that only touches
\* the one asked about, an interval of another day and an interval of another
\* owner never make a conflict.
C22_ConflictIsOverlapOfSameOwner ==
    (call.fn = "has_conflict" /\ call.done) =>
        /\ call.result <=>
              \E i \in SameDayAndOwner :
                 ~(\/ Minutes(call.end) <= Minutes(call.recorded[i][2])
                   \/ Minutes(call.start) >= Minutes(call.recorded[i][3]))
        /\ (\A i \in 1..Len(call.recorded) :
               \/ call.recorded[i][1] # call.day
               \/ Minutes(call.recorded[i][2]) = Minutes(call.end)
               \/ Minutes(call.recorded[i][3]) = Minutes(call.start)
               \/ /\ call.key # None
                  /\ call.recorded[i][4] \notin {None, call.key})
           => ~call.result

\* A call answered false although the index holds, for the day asked about, a
\* block of the same owner that ends where the interval starts and a block of
\* another owner over the very same interval.
C22_Witness ==
    /\ call.fn = "has_conflict"
    /\ call.done
    /\ ~call.result
    /\ call.key # None
    /\ Len(call.recorded) = 2
    /\ \E i, j \in 1..2 :
          /\ call.recorded[i][1] = call.day
          /\ call.recorded[i][4] = call.key
          /\ Minutes(call.recorded[i][3]) = Minutes(call.start)
          /\ call.recorded[j][1] = call.day
          /\ call.recorded[j][4] \notin {None, call.key}
          /\ Minutes(call.recorded[j][2]) = Minutes(call.start)
          /\ Minutes(call.recorded[j][3]) = Minutes(call.end)

-----------------------------------------------------------------------------
(* C23 *)

\* The (start, end, teacher) of the rows of a day that have a teacher, in row
\* order.
TeacherIntervals(rows, day) ==
    LET on == SelectSeq(rows, LAMBDA r : r.day_of_week = day /\ r.teacher_id \notin {None, 0})
    IN  [i \in 1..Len(on) |-> <<on[i].start_time, on[i].end_time, on[i].teacher_id>>]

\* The run of blk generated slots of a day that starts at the idx-th slot has
\* no row of the section and a room of rs without a row, whatever the teachers.
OpenButTeachers(rows, rs, day, idx, blk, sid) ==
    LET from == DayHours[idx]
        to == DayHours[idx + blk - 1] + 1
    IN  /\ \A k \in 1..Len(rows) : ~Blocks(rows[k], day, from, to, sid, None, 0)
        /\ \E room \in rs :
              \A k \in 1..Len(rows) : ~Blocks(rows[k], day, from, to, 0, None, room.id)

\* C23: for a subject without a teacher a run of auto_generate_schedule applies
\* the section and room checks only: the block sits on the first run of slots
\* that the section and some room have free, whether or not teachers have
\* entries then, the entry created has no teacher and the teacher index gets no
\* interval; for a subject with a teacher the entry carries that teacher, meets
\* no entry of that teacher, and its interval is added to the teacher index.
\* The teacher index at the end of the run holds the intervals of the loaded
\* entries that have a teacher, then those of the created entries that have one.
C23_TeacherCheckedOnlyWhenSet ==
    [][RunDone(resp') /\ nreq' = nreq + 1 =>
          LET r == resp'
              sid == RunSection(r)
              section == CHOOSE sec \in Sections : sec.id = sid
          IN  \A seen \in {SeenBy(r, schedules)},
                 run \in {Allocate(schedules, r.section_id, section, RoomsByName(rooms'),
                                   r.allow_saturday, subjects_for_section(subjects', section))} :
              /\ run.added = r.added
              /\ \A day \in 0..6 :
                    (IF day \in DOMAIN run.occ.teacher_occ
                     THEN run.occ.teacher_occ[day] ELSE <<>>)
                       = TeacherIntervals(seen \o r.added, day)
              /\ \A i \in 1..Len(r.added) :
                    \A rows \in {seen \o SubSeq(r.added, 1, i - 1)}, e \in {r.added[i]} :
                       LET subj == CHOOSE sb \in subjects' : sb.id = e.subject_id
                           blk == r.created[i].blk
                       IN  /\ e.teacher_id = subj.teacher_id
                           /\ subj.teacher_id # None =>
                                 \A k \in 1..Len(rows) :
                                    rows[k].teacher_id = subj.teacher_id => ~Meet(rows[k], e)
                           /\ subj.teacher_id = None =>
                                 \E idx \in 1..(Len(DayHours) - blk + 1) :
                                    /\ Minutes(e.start_time) = 60 * DayHours[idx]
                                    /\ OpenButTeachers(rows, rooms', e.day_of_week, idx, blk, sid)
                                    /\ \A j \in 1..(idx - 1) :
                                          ~OpenButTeachers(rows, rooms', e.day_of_week, j, blk, sid)
                                    /\ \A day \in 0..(e.day_of_week - 1),
                                          j \in 1..(Len(DayHours) - blk + 1) :
                                          ~OpenButTeachers(rows, rooms', day, j, blk, sid)
      ]_vars

\* A run created an entry without a teacher at a time when every teacher has an
\* entry in another section, and an entry with a teacher, after entries with a
\* teacher were loaded.
C23_Witness ==
    /\ RunDone(resp)
    /\ \E i, j \in 1..Len(resp.added) :
          /\ resp.added[i].teacher_id = None
          /\ \A t \in Teachers :
                \E k \in 1..Len(schedules) :
                   /\ schedules[k].section_id # RunSection(resp)
                   /\ schedules[k].teacher_id = t
                   /\ Meet(schedules[k], resp.added[i])
          /\ resp.added[j].teacher_id \in Teachers

-----------------------------------------------------------------------------
(* C24 *)

\* C24: every entry a run of auto_generate_schedule creates is on a day from 0
\* to 4 when allow_saturday is false and from 0 to 5 when it is true, never on
\* day 6, starts on a whole hour at or after 07:00 and ends at or before 17:00
\* (the response's created records say the same day and times).
C24_EntriesWithinTheWeekAndTheDay ==
    [][RunDone(resp') /\ nreq' = nreq + 1 =>
          \A i \in 1..Len(resp'.added) :
             LET e == resp'.added[i]
             IN  /\ e.day_of_week \in (IF resp'.allow_saturday THEN 0..5 ELSE 0..4)
                 /\ e.day_of_week # 6
                 /\ e.start_time[2] = 0
                 /\ e.start_time[1] \in 7..16
                 /\ Minutes(e.start_time) >= 7 * 60
                 /\ Minutes(e.end_time) <= 17 * 60
                 /\ Minutes(e.start_time) < Minutes(e.end_time)
                 /\ resp'.created[i].day = e.day_of_week
                 /\ resp'.created[i].start = e.start_time
                 /\ resp'.created[i].end = e.end_time
                 /\ \E k \in 1..Len(schedules') : schedules'[k] = e
      ]_vars

\* A run with Saturday allowed created an entry on day 5, one that starts at
\* 07:00 and one that ends at 17:00.
C24_Witness ==
    /\ RunDone(resp)
    /\ resp.allow_saturday
    /\ \E i, j, k \in 1..Len(resp.added) :
          /\ resp.added[i].day_of_week = 5
          /\ Minutes(resp.added[j].start_time) = 7 * 60
          /\ Minutes(resp.added[k].end_time) = 17 * 60

-----------------------------------------------------------------------------
(* C25 *)

\* The rows the call created: those student_subjects holds after the rows it
\* held before the call.
CreatedRows == SubSeq(student_subjects, Len(call.before) + 1, Len(student_subjects))

\* C25: every student_subjects row that auto_assign_subjects_for_student creates
\* is a row of the student, carries the teacher_id of its subject (null when
\* the subject has none), is active, and has as section_id the id of the
\* section passed, or the student's own section_id when no section is passed.
C25_CreatedRowCarriesTeacherAndSection ==
    Assigned =>
        /\ Len(CreatedRows) = call.created
        /\ \A i \in 1..Len(CreatedRows) :
              LET row == CreatedRows[i]
              IN  /\ row.student_id = TheStudent.id
                  /\ \E sb \in subjects : sb.id = row.subject_id /\ sb.teacher_id = row.teacher_id
                  /\ row.active = 1
                  /\ call.section.id # None => row.section_id = call.section.id
                  /\ call.section.id = None => row.section_id = TheStudent.section_id

\* A call without a section, for a student whose own section_id is set, created
\* a row with a teacher and a row without one.
C25_Witness ==
    /\ Assigned
    /\ call.section.id = None
    /\ TheStudent.section_id # None
    /\ \E i, j \in 1..Len(CreatedRows) :
          /\ CreatedRows[i].teacher_id # None
          /\ CreatedRows[j].teacher_id = None
          /\ CreatedRows[i].section_id = TheStudent.section_id

-----------------------------------------------------------------------------
(* C26 *)

\* The block lengths of the created records of a subject, in order.
CreatedLengths(r, subject_id) ==
    LET at == SelectSeq([i \in 1..Len(r.added) |-> i],
                        LAMBDA i : r.added[i].subject_id = subject_id)
    IN  [k \in 1..Len(at) |-> r.created[at[k]].blk]

\* The block lengths of the failed records of a subject, in order.
FailedLengths(r, subject_id) ==
    LET of == SelectSeq(r.failed, LAMBDA f : f.subject_id = subject_id)
    IN  [k \in 1..Len(of) |-> of[k].hours]

\* The number of members of a sequence of lengths that are n.
CountOf(lengths, n) == Cardinality({k \in 1..Len(lengths) : lengths[k] = n})

\* C26: in every run of auto_generate_schedule that completes, each block of
\* each eligible subject is once in the created list or once in the failed
\* list: for every eligible subject the created entries and the failed records
\* together are as many as the blocks of its split, length by length, and their
\* block lengths sum to the subject's weekly hours; no record is of a subject
\* that is not eligible.
C26_EveryBlockCreatedOrFailedOnce ==
    [][RunDone(resp') /\ nreq' = nreq + 1 =>
          LET r == resp'
              section == CHOOSE sec \in Sections : sec.id = RunSection(r)
          IN  \A subjs \in {subjects_for_section(subjects', section)} :
              /\ Len(r.created) = Len(r.added)
              /\ \A i \in 1..Len(r.added) :
                    \E k \in 1..Len(subjs) : subjs[k].id = r.added[i].subject_id
              /\ \A f \in 1..Len(r.failed) :
                    \E k \in 1..Len(subjs) : subjs[k].id = r.failed[f].subject_id
              /\ \A k \in 1..Len(subjs) :
                    \A made \in {CreatedLengths(r, subjs[k].id)},
                       lost \in {FailedLengths(r, subjs[k].id)},
                       blocks \in {split_hours_into_blocks(subject_weekly_hours(subjs[k]))} :
                       /\ Len(made) + Len(lost) = Len(blocks)
                       /\ \A n \in 1..MaxHours :
                             CountOf(made, n) + CountOf(lost, n) = CountOf(blocks, n)
                       /\ SumSeq(made) + SumSeq(lost) = subject_weekly_hours(subjs[k])
      ]_vars

\* A run completed with a block of a subject created and the other block of the
\* same subject failed, and with a subject whose blocks both failed.
C26_Witness ==
    /\ RunDone(resp)
    /\ \E sb, other \in subjects :
          /\ Len(CreatedLengths(resp, sb.id)) = 1
          /\ Len(FailedLengths(resp, sb.id)) = 1
          /\ Len(CreatedLengths(resp, other.id)) = 0
          /\ Len(FailedLengths(resp, other.id)) = 2

-----------------------------------------------------------------------------
(* C27 *)

\* C27: every weekly-hour load subject_weekly_hours returns, from the table or
\* from a fallback, is 3, 4 or 5; so the blocks the allocator asks for, the
\* split of that load, are exactly two, each of length 1, 2 or 3.
C27_LoadsAreThreeToFive ==
    (call.fn = "subject_weekly_hours" /\ call.done) =>
        /\ call.hours \in {3, 4, 5}
        /\ Len(call.blocks) = 2
        /\ \A b \in 1..Len(call.blocks) : call.blocks[b] \in {1, 2, 3}
        /\ call.blocks[1] + call.blocks[2] = call.hours

\* A call for a subject outside the table returned 3 by the fallback, split
\* into a block of two hours and a block of one.
C27_Witness ==
    /\ call.fn = "subject_weekly_hours"
    /\ call.done
    /\ ~InTable(call.subj.name)
    /\ call.hours = 3
    /\ call.blocks = <<2, 1>>

-----------------------------------------------------------------------------
(* C28 *)

\* The last request was an allocator request rejected because the section has
\* no eligible subject.
NoSubjects(r) ==
    r.op = "auto_generate" /\ r.status = 400 /\ r.error = "No subjects available"

\* C28: when auto_generate_schedule is rejected because the section has no
\* eligible subjects, the entries the section had persisted are still there
\* afterwards (the whole table is as it was): the delete issued before the
\* subject check is never committed.
C28_RejectionKeepsTheSectionsEntries ==
    [][NoSubjects(resp') /\ nreq' = nreq + 1 =>
          /\ schedules' = schedules
          /\ \A sec \in Sections : RowsOf(schedules', sec.id) = RowsOf(schedules, sec.id)
      ]_vars

\* A request was rejected for a section without eligible subjects that has
\* persisted entries, from a run made before its subjects changed band.
C28_Witness ==
    /\ NoSubjects(resp)
    /\ RowsOf(schedules, RunSection(resp)) # <<>>
    /\ \E sec \in Sections :
          /\ sec.id = RunSection(resp)
          /\ subjects_for_section(subjects, sec) = <<>>

-----------------------------------------------------------------------------
(* C29 *)

\* C29: two runs of auto_generate_schedule for the same section that interleave,
\* the second issuing its delete before the first commits its inserts, both
\* commit, and the section is left with the entries of both runs, which overlap
\* each other: the section's persisted entries are those the first added
\* followed by those the second added, and each entry of the second meets an
\* entry of the first on its day.  Two entries of one section overlap only in
\* this way.
C29_SameSectionRunsLeaveBothSets ==
    /\ \A p, q \in Slots :
          Interleaved(p, q) =>
             /\ RowsOf(schedules, runs[p].section.id) = runs[q].added \o runs[p].added
             /\ \A i \in 1..Len(runs[p].added) :
                   \E j \in 1..Len(runs[q].added) :
                      Meet(runs[p].added[i], runs[q].added[j])
    /\ \A i, j \in 1..Len(schedules) :
          (/\ i < j
           /\ schedules[i].section_id = schedules[j].section_id
           /\ Meet(schedules[i], schedules[j]))
          => \E p, q \in Slots :
                /\ Interleaved(p, q)
                /\ schedules[i] \in SeqToSet(runs[q].added)
                /\ schedules[j] \in SeqToSet(runs[p].added)

\* Two runs for one section both committed, the second having deleted before
\* the first committed: the section holds the entries of both, and two of its
\* entries overlap.
C29_Witness ==
    /\ \A p \in Slots : Committed(p) /\ runs[p].added # <<>>
    /\ \E p, q \in Slots : Interleaved(p, q)
    /\ Len(RowsOf(schedules, runs[1].section.id))
          = Len(runs[1].added) + Len(runs[2].added)
    /\ \E i, j \in 1..Len(schedules) :
          /\ i < j
          /\ schedules[i].section_id = schedules[j].section_id
          /\ Meet(schedules[i], schedules[j])

-----------------------------------------------------------------------------
(* C30 *)

\* The rows the student of the call held before it from an enrollment through a
\* section other than the one the call names: their positions in call.before.
LinksOfAnotherSection ==
    { k \in 1..Len(call.before) :
        /\ call.before[k].student_id = TheStudent.id
        /\ call.before[k].section_id \notin {None, call.section.id} }

\* C30: when auto_assign_subjects_for_student is called with a section B for a
\* student who holds rows from an enrollment through another section A, every
\* row held before the call is still there unchanged (its section_id names A,
\* its teacher_id is the one stored and not the subject's current one, its
\* active flag is as it was), and the call creates a row exactly for each
\* eligible subject that no row of the student names, active or not.
C30_ReassignmentLeavesLinksUntouched ==
    (Assigned /\ call.section.id # None /\ LinksOfAnotherSection # {}) =>
        LET st == TheStudent
            n == parse_grade_number(st.grade_level)
            want == IF n = None THEN {}
                    ELSE {sb.id : sb \in Eligible(subjects, n, call.section.track)}
        IN  /\ Len(student_subjects) = Len(call.before) + call.created
            /\ \A k \in 1..Len(call.before) : student_subjects[k] = call.before[k]
            /\ \A k \in LinksOfAnotherSection :
                  /\ student_subjects[k].section_id # call.section.id
                  /\ \A i \in 1..Len(CreatedRows) :
                        CreatedRows[i].subject_id # call.before[k].subject_id
            /\ \A id \in want :
                  Cardinality({i \in 1..Len(CreatedRows) : CreatedRows[i].subject_id = id})
                     = IF \E k \in 1..Len(call.before) :
                             /\ call.before[k].student_id = st.id
                             /\ call.before[k].subject_id = id
                       THEN 0 ELSE 1
            /\ \A i \in 1..Len(CreatedRows) : CreatedRows[i].subject_id \in want

\* A call with a section other than 3 for a grade-9 student who holds an
\* inactive row for subject 1 from section 3, stored without a teacher while
\* subject 1 now has one and is eligible: the row is as it was, and the call
\* created rows for other subjects.
C30_Witness ==
    /\ Assigned
    /\ call.section.id \notin {None, 3}
    /\ call.created > 0
    /\ \E k \in LinksOfAnotherSection :
          /\ student_subjects[k].section_id = 3
          /\ student_subjects[k].active = 0
          /\ student_subjects[k].teacher_id = None
          /\ \E sb \in Eligible(subjects, parse_grade_number(TheStudent.grade_level),
                                call.section.track) :
                /\ sb.id = student_subjects[k].subject_id
                /\ sb.teacher_id # None

=============================================================================
